---------------------------- MODULE Spec2Model ----------------------------
(***************************************************************************)
(* A model of the amino-dedupe record deduplication engine:                *)
(*   - scoreMatch            (src/src/lib/matching.js)                     *)
(*   - groupCandidates       (src/src/lib/matching.js)                     *)
(*   - computeFieldResolutions, applyFieldSelections, buildMergePayload,   *)
(*     parseDedupeHistory, buildUnmergePayload (src/src/lib/merge.js)      *)
(*   - the merge / bulk merge / unmerge / Case Master merge flows of the   *)
(*     components that write to the external store,                        *)
(*   - findDuplicateCandidates, scoreRecordQuality, normalizeName,         *)
(*     stringSimilarity, areNamesSimilar (src/src/lib/matching.js)         *)
(*   - the scan and the background resync of ScanResults.                  *)
(* Each area has its own specification over the shared variables.          *)
(***************************************************************************)
EXTENDS Integers, Sequences, FiniteSets, TLC

VARIABLES
    (* scoreMatch *)
    recA, recB, scoreResult,
    (* groupCandidates *)
    candidates, groupResult,
    (* merge / unmerge payload builders *)
    pin, presult,
    (* store flows *)
    store, scanned, bulk, viewer, lastWrite, lastDelete, lastRun, opCount

scoreVars == <<recA, recB, scoreResult>>
groupVars == <<candidates, groupResult>>
payloadVars == <<pin, presult>>
flowVars == <<store, scanned, bulk, viewer, lastWrite, lastDelete, lastRun, opCount>>
vars == <<scoreVars, groupVars, payloadVars, flowVars>>

(* The value every variable of an area holds while another area's          *)
(* specification runs.                                                     *)
Idle == "idle"

ScoreIdle == recA = Idle /\ recB = Idle /\ scoreResult = Idle
GroupIdle == candidates = Idle /\ groupResult = Idle
PayloadIdle == pin = Idle /\ presult = Idle
FlowIdle ==
    /\ store = Idle /\ scanned = Idle /\ bulk = Idle /\ viewer = Idle
    /\ lastWrite = Idle /\ lastDelete = Idle /\ lastRun = Idle /\ opCount = 0

Max(a, b) == IF a >= b THEN a ELSE b
Min(a, b) == IF a <= b THEN a ELSE b

Range(s) == {s[i] : i \in 1..Len(s)}

(***************************************************************************)
(*                              scoreMatch                                 *)
(***************************************************************************)

(* MATCH_TIERS: the tier numbers. *)
DEFINITIVE == 1
STRONG == 2
POSSIBLE == 3
INVESTIGATE == 4

(* config.uniqueIdFields, in configuration order. *)
UniqueIdFields == <<"PPID", "A#">>

LowerChar(c) ==
    CASE c = "A" -> "a"
      [] c = "B" -> "b"
      [] OTHER -> c

(* The code units of the lowercase form of one character: U+0130, the      *)
(* capital I with a dot above (written "I-dot"), becomes an i followed by  *)
(* U+0307 (written "dot-above"); every other character keeps its length.   *)
LowerUnits(c) == IF c = "I-dot" THEN <<"i", "dot-above">> ELSE <<LowerChar(c)>>

RECURSIVE ToLowerCase(_)
ToLowerCase(s) ==
    IF s = <<>> THEN <<>> ELSE LowerUnits(Head(s)) \o ToLowerCase(Tail(s))

RECURSIVE TrimLeft(_)
TrimLeft(s) ==
    IF s # <<>> /\ Head(s) = " " THEN TrimLeft(Tail(s)) ELSE s

RECURSIVE TrimRight(_)
TrimRight(s) ==
    IF s # <<>> /\ s[Len(s)] = " " THEN TrimRight(SubSeq(s, 1, Len(s) - 1)) ELSE s

Trim(s) == TrimRight(TrimLeft(s))

(* String.prototype.includes *)
Includes(s, sub) ==
    \E i \in 1..(Len(s) - Len(sub) + 1) : SubSeq(s, i, i + Len(sub) - 1) = sub

(* Strings are sequences of one-character strings where the code looks     *)
(* inside them (phones, emails); \D is every character but these.          *)
IsDigit(c) == c \in {"0", "1", "2", "3", "4", "5", "6", "7", "8", "9"}

(* normalizePhone: strip the non-digits, then a leading 1 of 11 digits. *)
normalizePhone(phone) ==
    IF phone = <<>> THEN <<>>
    ELSE LET digits == SelectSeq(phone, IsDigit)
         IN IF Len(digits) = 11 /\ digits[1] = "1" THEN Tail(digits) ELSE digits

(* normalizeEmail: lowercase and trim. *)
normalizeEmail(email) ==
    IF email = <<>> THEN <<>> ELSE Trim(ToLowerCase(email))

(* Lines 89-102: the unique-ID fields that match and those that conflict. *)
IdMatches(fieldsA, fieldsB) ==
    {i \in 1..Len(UniqueIdFields) :
        LET f == UniqueIdFields[i]
        IN fieldsA.ids[f] # "" /\ fieldsB.ids[f] # "" /\ fieldsA.ids[f] = fieldsB.ids[f]}

IdConflicts(fieldsA, fieldsB) ==
    {i \in 1..Len(UniqueIdFields) :
        LET f == UniqueIdFields[i]
        IN fieldsA.ids[f] # "" /\ fieldsB.ids[f] # "" /\ fieldsA.ids[f] # fieldsB.ids[f]}

IdConfidence(fieldsA, fieldsB) ==
    IF IdMatches(fieldsA, fieldsB) # {} THEN 100 ELSE 0

(* Lines 138-178: the corroborating signals that fire, with their bonus. *)
PhoneMatches(fieldsA, fieldsB) ==
    LET phoneA == normalizePhone(fieldsA.phone)
        phoneB == normalizePhone(fieldsB.phone)
    IN phoneA # <<>> /\ phoneB # <<>> /\ Len(phoneA) >= 10 /\ phoneA = phoneB

EmailMatches(fieldsA, fieldsB) ==
    LET emailA == normalizeEmail(fieldsA.email)
        emailB == normalizeEmail(fieldsB.email)
        NullBlank == <<"n", "u", "l", "l", "@", "b", "l", "a", "n", "k">>
    IN emailA # <<>> /\ emailB # <<>> /\ ~Includes(emailA, NullBlank) /\ emailA = emailB

DobMatches(fieldsA, fieldsB) ==
    fieldsA.dob # "" /\ fieldsB.dob # "" /\ fieldsA.dob = fieldsB.dob

(* addrSim is stringSimilarity(normalizeAddress(a), normalizeAddress(b)),  *)
(* or -1 when one of the two normalized addresses is empty.                *)
AddressMatches(addrSim) == addrSim >= 80

Signals(fieldsA, fieldsB, addrSim) ==
    (IF PhoneMatches(fieldsA, fieldsB) THEN <<"phone">> ELSE <<>>)
    \o (IF EmailMatches(fieldsA, fieldsB) THEN <<"email">> ELSE <<>>)
    \o (IF DobMatches(fieldsA, fieldsB) THEN <<"dob">> ELSE <<>>)
    \o (IF AddressMatches(addrSim) THEN <<"address">> ELSE <<>>)

Bonus(signal) ==
    CASE signal = "phone" -> 10
      [] signal = "email" -> 10
      [] signal = "dob" -> 15
      [] signal = "address" -> 5

(* confidence = Math.min(100, confidence + bonus), signal after signal. *)
RECURSIVE AddBonuses(_, _)
AddBonuses(confidence, signals) ==
    IF signals = <<>> THEN confidence
    ELSE AddBonuses(Min(100, confidence + Bonus(Head(signals))), Tail(signals))

(* TierOf without the corroborated 75..84 band. *)
TierOf_NoCorroboration(confidence, corroborationCount) ==
    IF confidence >= 100 THEN DEFINITIVE
    ELSE IF confidence >= 85 THEN STRONG
    ELSE POSSIBLE

(* Lines 180-191: the tier of the final confidence. *)
TierOf(confidence, corroborationCount) ==
    IF confidence >= 100 THEN DEFINITIVE
    ELSE IF confidence >= 85 \/ (confidence >= 75 /\ corroborationCount >= 1) THEN STRONG
    ELSE POSSIBLE

FloorOf(confidence) ==
    IF confidence >= 70 THEN confidence ELSE Max(confidence, 70)

(* scoreMatch with the definitive-ID return tested before the conflicts. *)
scoreMatch_IdFirst(fieldsA, fieldsB, pair) ==
    LET conflicts == IdConflicts(fieldsA, fieldsB)
        idConf == IdConfidence(fieldsA, fieldsB)
    IN IF idConf >= 100
       THEN [tier |-> DEFINITIVE, confidence |-> 100,
             conflicts |-> conflicts, isConflict |-> FALSE, corroboration |-> <<>>]
       ELSE [tier |-> INVESTIGATE, confidence |-> Max(idConf, 50),
             conflicts |-> conflicts, isConflict |-> conflicts # {},
             corroboration |-> <<>>]

(* scoreMatch(recordA, recordB, config).  pair.name is the result of       *)
(* areNamesSimilar(nameA, nameB, 75) ([match |-> FALSE] also when a name   *)
(* is missing); pair.addrSim is the address similarity.                    *)
scoreMatch(fieldsA, fieldsB, pair) ==
    LET conflicts == IdConflicts(fieldsA, fieldsB)
        idConf == IdConfidence(fieldsA, fieldsB)
    IN IF conflicts # {}
       THEN [tier |-> INVESTIGATE, confidence |-> Max(idConf, 50),
             conflicts |-> conflicts, isConflict |-> TRUE, corroboration |-> <<>>]
       ELSE IF idConf >= 100
       THEN [tier |-> DEFINITIVE, confidence |-> 100,
             conflicts |-> conflicts, isConflict |-> FALSE, corroboration |-> <<>>]
       ELSE LET named == IF pair.name.match THEN Max(idConf, pair.name.score) ELSE idConf
                signals == Signals(fieldsA, fieldsB, pair.addrSim)
                summed == AddBonuses(named, signals)
            IN [tier |-> TierOf(summed, Len(signals)),
                confidence |-> FloorOf(summed),
                conflicts |-> conflicts, isConflict |-> FALSE,
                corroboration |-> signals]

(* ---- the inputs of the scoring specification ---- *)

IdFieldSet == Range(UniqueIdFields)

ScoreRecordsA ==
    LET PhoneA == { <<"6","1","5","-","5","5","5","-","0","1","0","0">>,
                    <<"5","5","5","-","0","1","0","0">> }
        EmailA == { <<" ","A","@","b">>,
                    <<"x","@","n","u","l","l","@","b","l","a","n","k">> }
    IN [ids : [IdFieldSet -> {"", "x"}], phone : PhoneA, email : EmailA,
        dob : {"1980-01-01"}]

ScoreRecordsB ==
    LET PhoneB == { <<>>,
                    <<"1"," ","(","6","1","5",")"," ","5","5","5","0","1","0","0">>,
                    <<"6","1","5","-","5","5","5","-","0","1","9","9">>,
                    <<"5","5","5","0","1","0","0">> }
        EmailB == { <<>>, <<"a","@","B"," ">>,
                    <<"x","@","n","u","l","l","@","b","l","a","n","k">> }
    IN [ids : [IdFieldSet -> {"", "x", "y"}], phone : PhoneB, email : EmailB,
        dob : {"", "1980-01-01", "1975-05-05"}]

(* The results areNamesSimilar(n1, n2, 75) can return: no match, or a      *)
(* match with score 100 (canonical), 95 (variant), 75..100 (fuzzy), 85    *)
(* (shared parts); the address similarity is -1 when an address is absent. *)
ScorePairs ==
    LET NameOutcomes ==
            {[match |-> FALSE, score |-> 0]}
            \cup {[match |-> TRUE, score |-> n] : n \in {75, 84, 85, 100}}
    IN [name : NameOutcomes, addrSim : {-1, 79, 80}]

ScoreInit ==
    /\ recA \in ScoreRecordsA
    /\ recB \in [rec : ScoreRecordsB, pair : ScorePairs]
    /\ scoreResult = <<>>
    /\ GroupIdle /\ PayloadIdle /\ FlowIdle

Score ==
    /\ scoreResult = <<>>
    /\ scoreResult' = <<scoreMatch(recA, recB.rec, recB.pair)>>
    /\ UNCHANGED <<recA, recB, groupVars, payloadVars, flowVars>>

ScoreNext == Score

SpecScore == ScoreInit /\ [][ScoreNext]_vars

(* Some configured unique-ID field is non-empty on both records and differs. *)
SomeIdDiffers ==
    \E f \in IdFieldSet :
        recA.ids[f] # "" /\ recB.rec.ids[f] # "" /\ recA.ids[f] # recB.rec.ids[f]

(* Some configured unique-ID field is non-empty on both records and equal. *)
SomeIdEqual ==
    \E f \in IdFieldSet :
        recA.ids[f] # "" /\ recB.rec.ids[f] # "" /\ recA.ids[f] = recB.rec.ids[f]

(* C7: two records whose values differ in a configured unique-ID field     *)
(* that both carry score as a conflict: isConflict, tier Investigate,      *)
(* confidence max(50, confidence from the ID matches), whatever the name,  *)
(* phone, email, DOB and address, and even when another ID field matches.  *)
Thm_C7_ConflictPrecedence ==
    (scoreResult # <<>> /\ SomeIdDiffers) =>
        /\ scoreResult[1].isConflict
        /\ scoreResult[1].tier = INVESTIGATE
        /\ scoreResult[1].confidence = (IF SomeIdEqual THEN 100 ELSE 50)

(* A scored pair with one ID field in conflict, another matching exactly,  *)
(* an exact name and a matching phone.                                     *)
Wit_C7_ConflictWithIdMatch ==
    /\ scoreResult # <<>>
    /\ SomeIdDiffers /\ SomeIdEqual
    /\ recB.pair.name = [match |-> TRUE, score |-> 100]
    /\ PhoneMatches(recA, recB.rec)
    /\ scoreResult[1].isConflict

Cex_C24_TiersAsDocumented ==
    (scoreResult # <<>> /\ ~scoreResult[1].isConflict) =>
        LET r == scoreResult[1]
            named == recB.pair.name.match
        IN /\ r.tier = DEFINITIVE => (r.confidence = 100 /\ SomeIdEqual)
           /\ (~SomeIdEqual /\ named /\ Len(r.corroboration) >= 1) =>
                  (r.tier = STRONG /\ r.confidence \in 85..99)
           /\ (~SomeIdEqual /\ named /\ Len(r.corroboration) = 0) =>
                  (r.tier = POSSIBLE /\ r.confidence \in 70..84)

(***************************************************************************)
(*                            groupCandidates                              *)
(***************************************************************************)

(* A candidate is [survivor, merged : [id, score], tier, confidence].      *)
(* Group objects live in a heap (a sequence indexed by reference, in       *)
(* creation order); `groups` is the array of references and recordToGroup  *)
(* maps a record id to a reference, 0 for undefined.                       *)

RecordIds(records) == {records[i].id : i \in 1..Len(records)}

(* Lines 442-453: neither endpoint has a group. *)
CreateGroup(st, c) ==
    LET ref == Len(st.heap) + 1
        group == [id |-> Len(st.groups),
                  records |-> <<c.survivor, c.merged>>,
                  matches |-> <<c>>,
                  bestTier |-> c.tier,
                  highestConfidence |-> c.confidence]
    IN [heap |-> Append(st.heap, group),
        groups |-> Append(st.groups, ref),
        recordToGroup |-> [r \in DOMAIN st.recordToGroup |->
                             IF r \in {c.survivor.id, c.merged.id} THEN ref
                             ELSE st.recordToGroup[r]]]

(* Lines 454-471: one endpoint has a group, the other record joins it. *)
AddToGroup(st, ref, joining, c) ==
    LET g == st.heap[ref]
        grown == [g EXCEPT !.records = Append(g.records, joining),
                           !.matches = Append(g.matches, c),
                           !.highestConfidence = Max(g.highestConfidence, c.confidence),
                           !.bestTier = IF c.tier < g.bestTier THEN c.tier ELSE g.bestTier]
    IN [st EXCEPT !.heap[ref] = grown,
                  !.recordToGroup[joining.id] = ref]

(* Lines 474-479: the absorbed group's records pushed when not yet there. *)
RECURSIVE PushMissing(_, _)
PushMissing(records, incoming) ==
    IF incoming = <<>> THEN records
    ELSE PushMissing(
            IF Head(incoming).id \in RecordIds(records) THEN records
            ELSE Append(records, Head(incoming)),
            Tail(incoming))

(* groups.splice(groups.indexOf(mergedGroup), 1) *)
RemoveRef(groups, ref) == SelectSeq(groups, LAMBDA x : x # ref)

(* The union that leaves the absorbed group in the array. *)
UniteGroups_NoSplice(st, sref, mref, c) ==
    LET sg == st.heap[sref]
        mg == st.heap[mref]
        united == [sg EXCEPT
            !.records = PushMissing(sg.records, mg.records),
            !.matches = sg.matches \o mg.matches \o <<c>>,
            !.highestConfidence =
                Max(Max(sg.highestConfidence, mg.highestConfidence), c.confidence),
            !.bestTier = IF mg.bestTier < sg.bestTier THEN mg.bestTier ELSE sg.bestTier]
    IN [heap |-> [st.heap EXCEPT ![sref] = united],
        groups |-> st.groups,
        recordToGroup |-> [r \in DOMAIN st.recordToGroup |->
                             IF r \in RecordIds(mg.records) THEN sref
                             ELSE st.recordToGroup[r]]]

(* Lines 472-487: both endpoints have a group and the groups differ. *)
UniteGroups(st, sref, mref, c) ==
    LET sg == st.heap[sref]
        mg == st.heap[mref]
        united == [sg EXCEPT
            !.records = PushMissing(sg.records, mg.records),
            !.matches = sg.matches \o mg.matches \o <<c>>,
            !.highestConfidence =
                Max(Max(sg.highestConfidence, mg.highestConfidence), c.confidence),
            !.bestTier = IF mg.bestTier < sg.bestTier THEN mg.bestTier ELSE sg.bestTier]
    IN [heap |-> [st.heap EXCEPT ![sref] = united],
        groups |-> RemoveRef(st.groups, mref),
        recordToGroup |-> [r \in DOMAIN st.recordToGroup |->
                             IF r \in RecordIds(mg.records) THEN sref
                             ELSE st.recordToGroup[r]]]

(* Lines 488-491: both endpoints already share a group. *)
AddMatch(st, ref, c) ==
    [st EXCEPT !.heap[ref].matches = Append(@, c)]

(* Lines 435-492: one candidate of the forEach. *)
ProcessCandidate(st, c) ==
    LET survivorGroup == st.recordToGroup[c.survivor.id]
        mergedGroup == st.recordToGroup[c.merged.id]
    IN IF survivorGroup = 0 /\ mergedGroup = 0 THEN CreateGroup(st, c)
       ELSE IF survivorGroup # 0 /\ mergedGroup = 0
            THEN AddToGroup(st, survivorGroup, c.merged, c)
       ELSE IF survivorGroup = 0 /\ mergedGroup # 0
            THEN AddToGroup(st, mergedGroup, c.survivor, c)
       ELSE IF survivorGroup # mergedGroup
            THEN UniteGroups(st, survivorGroup, mergedGroup, c)
       ELSE AddMatch(st, survivorGroup, c)

RECURSIVE ProcessAll(_, _)
ProcessAll(st, cands) ==
    IF cands = <<>> THEN st
    ELSE ProcessAll(ProcessCandidate(st, Head(cands)), Tail(cands))

(* Lines 497-502: the first occurrence of every record id. *)
RECURSIVE DedupeById(_, _)
DedupeById(records, seen) ==
    IF records = <<>> THEN <<>>
    ELSE IF Head(records).id \in seen THEN DedupeById(Tail(records), seen)
    ELSE <<Head(records)>> \o DedupeById(Tail(records), seen \cup {Head(records).id})

(* Array.prototype.sort((a, b) => b.score - a.score): stable, descending. *)
RECURSIVE InsertByScore(_, _)
InsertByScore(sorted, r) ==
    IF sorted = <<>> THEN <<r>>
    ELSE IF Head(sorted).score >= r.score
         THEN <<Head(sorted)>> \o InsertByScore(Tail(sorted), r)
         ELSE <<r>> \o sorted

RECURSIVE SortByScoreDesc(_)
SortByScoreDesc(records) ==
    IF records = <<>> THEN <<>>
    ELSE InsertByScore(SortByScoreDesc(SubSeq(records, 1, Len(records) - 1)),
                       records[Len(records)])

(* The election that keeps the insertion order. *)
ElectSurvivor_NoSort(group) ==
    LET records == DedupeById(group.records, {})
    IN [id |-> group.id, records |-> records, matches |-> group.matches,
        bestTier |-> group.bestTier, highestConfidence |-> group.highestConfidence,
        survivor |-> records[1], toMerge |-> Tail(records)]

(* Lines 495-510: dedupe, sort, survivor and toMerge of one group. *)
ElectSurvivor(group) ==
    LET records == SortByScoreDesc(DedupeById(group.records, {}))
    IN [id |-> group.id, records |-> records, matches |-> group.matches,
        bestTier |-> group.bestTier, highestConfidence |-> group.highestConfidence,
        survivor |-> records[1], toMerge |-> Tail(records)]

GroupRecordUniverse == {"A", "B", "C", "D"}

(* groupCandidates(candidates) *)
groupCandidates(cands) ==
    LET start == [heap |-> <<>>, groups |-> <<>>,
                  recordToGroup |-> [r \in GroupRecordUniverse |-> 0]]
        final == ProcessAll(start, cands)
    IN [i \in 1..Len(final.groups) |-> ElectSurvivor(final.heap[final.groups[i]])]

(* ---- the inputs of the grouping specification ---- *)

(* The longest candidate list. *)
MaxCands == 3

(* scoreRecordQuality of the four records: B and C tie. *)
QualityOf(r) ==
    CASE r = "A" -> 30
      [] r = "B" -> 20
      [] r = "C" -> 20
      [] r = "D" -> 10

(* findDuplicateCandidates makes the record of the higher or equal score   *)
(* the survivor.                                                           *)
CandidateLists ==
    LET Scored(r) == [id |-> r, score |-> QualityOf(r)]
        EndpointPairs ==
            {p \in GroupRecordUniverse \X GroupRecordUniverse :
                p[1] # p[2] /\ QualityOf(p[1]) >= QualityOf(p[2])}
        TierConfs == {<<STRONG, 85>>, <<INVESTIGATE, 100>>}
        CandidateSet ==
            {[survivor |-> Scored(p[1]), merged |-> Scored(p[2]),
              tier |-> tc[1], confidence |-> tc[2]] :
                p \in EndpointPairs, tc \in TierConfs}
    IN UNION {[1..n -> CandidateSet] : n \in 0..MaxCands}

GroupInit ==
    /\ candidates \in CandidateLists
    /\ groupResult = <<>>
    /\ ScoreIdle /\ PayloadIdle /\ FlowIdle

Group ==
    /\ groupResult = <<>>
    /\ groupResult' = <<groupCandidates(candidates)>>
    /\ UNCHANGED <<candidates, scoreVars, payloadVars, flowVars>>

GroupNext == Group

SpecGroup == GroupInit /\ [][GroupNext]_vars

(* The record ids that occur in the candidates, and the candidate graph. *)
CandidateRecords ==
    UNION {{candidates[i].survivor.id, candidates[i].merged.id} : i \in 1..Len(candidates)}

RECURSIVE ReachableFrom(_)
ReachableFrom(set) ==
    LET Linked(a, b) ==
            \E i \in 1..Len(candidates) :
                {candidates[i].survivor.id, candidates[i].merged.id} = {a, b}
        more == set \cup {b \in CandidateRecords : \E a \in set : Linked(a, b)}
    IN IF more = set THEN set ELSE ReachableFrom(more)

Connected(a, b) == b \in ReachableFrom({a})

GroupsOf(r) ==
    {i \in 1..Len(groupResult[1]) : r \in RecordIds(groupResult[1][i].records)}

(* C4: the groups partition the candidates' records into the connected     *)
(* components of the candidate graph: every record is in exactly one       *)
(* group, two records share a group exactly when a chain of candidates     *)
(* links them, and no group holds a record that is not in the candidates.  *)
Thm_C4_GroupsAreComponents ==
    groupResult # <<>> =>
        /\ \A r \in CandidateRecords : Cardinality(GroupsOf(r)) = 1
        /\ \A a, b \in CandidateRecords :
              (GroupsOf(a) \cap GroupsOf(b) # {}) <=> Connected(a, b)
        /\ \A i \in 1..Len(groupResult[1]) :
              /\ RecordIds(groupResult[1][i].records) \subseteq CandidateRecords
              /\ groupResult[1][i].records # <<>>

(* A chain closed by a candidate that joins two existing groups: (A,B),    *)
(* (C,D), then (B,C), grouped into one group of four.                      *)
Wit_C4_ChainJoinsTwoGroups ==
    /\ groupResult # <<>>
    /\ Len(candidates) = 3
    /\ {candidates[1].survivor.id, candidates[1].merged.id} = {"A", "B"}
    /\ {candidates[2].survivor.id, candidates[2].merged.id} = {"C", "D"}
    /\ {candidates[3].survivor.id, candidates[3].merged.id} = {"B", "C"}
    /\ Len(groupResult[1]) = 1
    /\ RecordIds(groupResult[1][1].records) = {"A", "B", "C", "D"}

(* C5: every group's records hold no record id twice, its survivor is a    *)
(* member whose score is at least that of every member, and toMerge is the *)
(* records without the survivor.                                           *)
Thm_C5_SurvivorIsBest ==
    groupResult # <<>> =>
        \A i \in 1..Len(groupResult[1]) :
            LET g == groupResult[1][i]
            IN /\ \A j, k \in 1..Len(g.records) :
                     g.records[j].id = g.records[k].id => j = k
               /\ \E j \in 1..Len(g.records) : g.records[j] = g.survivor
               /\ \A j \in 1..Len(g.records) : g.survivor.score >= g.records[j].score
               /\ Len(g.toMerge) = Len(g.records) - 1
               /\ RecordIds(g.toMerge) = RecordIds(g.records) \ {g.survivor.id}

(* A group whose best record joined last: (B,D) then (A,B) elects A. *)
Wit_C5_LateBestRecord ==
    /\ groupResult # <<>>
    /\ Len(candidates) = 2
    /\ candidates[1].survivor.id = "B" /\ candidates[1].merged.id = "D"
    /\ candidates[2].survivor.id = "A" /\ candidates[2].merged.id = "B"
    /\ Len(groupResult[1]) = 1
    /\ groupResult[1][1].survivor.id = "A"
    /\ RecordIds(groupResult[1][1].toMerge) = {"B", "D"}

(* C6: every group's bestTier is the lowest tier number and its            *)
(* highestConfidence the highest confidence among the candidates of its    *)
(* matches list.  Stated here for the lists as findDuplicateCandidates     *)
(* leaves them (no pair of records twice, ordered by tier, then by         *)
(* confidence descending), which are among the lists the claim speaks of.  *)
Cex_C6_BestTierOverMatches ==
    LET sortedAsFound ==
            \A i \in 1..(Len(candidates) - 1) :
                \/ candidates[i].tier < candidates[i + 1].tier
                \/ /\ candidates[i].tier = candidates[i + 1].tier
                   /\ candidates[i].confidence >= candidates[i + 1].confidence
        pairOf(i) == {candidates[i].survivor.id, candidates[i].merged.id}
        pairsOnce ==
            \A i, j \in 1..Len(candidates) : pairOf(i) = pairOf(j) => i = j
    IN (groupResult # <<>> /\ sortedAsFound /\ pairsOnce) =>
        \A i \in 1..Len(groupResult[1]) :
            LET g == groupResult[1][i]
                tiers == [j \in 1..Len(g.matches) |-> g.matches[j].tier]
                confs == [j \in 1..Len(g.matches) |-> g.matches[j].confidence]
            IN /\ \E j \in 1..Len(tiers) : g.bestTier = tiers[j]
               /\ \A j \in 1..Len(tiers) : g.bestTier <= tiers[j]
               /\ \E j \in 1..Len(confs) : g.highestConfidence = confs[j]
               /\ \A j \in 1..Len(confs) : g.highestConfidence >= confs[j]

(***************************************************************************)
(* merge.js: field resolutions, merge payload, history, unmerge payload.   *)
(*                                                                         *)
(* JavaScript values are tagged records of one shape: t is the type, s the *)
(* text of a string, v the elements of an array.  A string holding JSON    *)
(* text is tagged "json": s names the shape of the document ("array" = a   *)
(* JSON array, "wrapped" = an object with a dedupe_history array,          *)
(* "legacy" = an object with a _merge_history array, "object" = any other  *)
(* object, "null" = the document null, "scalar" = a number, string or      *)
(* boolean document, "invalid" = text that is not JSON) and v holds the    *)
(* entries of the array the document carries.  A property that is absent   *)
(* from an object reads as Undef.  Timestamps are left out of the entries. *)
(***************************************************************************)
Undef == [t |-> "undefined", s |-> "", v |-> <<>>]
Null == [t |-> "null", s |-> "", v |-> <<>>]
Str(x) == [t |-> "string", s |-> x, v |-> <<>>]
List(x) == [t |-> "array", s |-> "", v |-> x]
Num(n) == [t |-> "number", s |-> "", v |-> <<n>>]
Json(kind, entries) == [t |-> "json", s |-> kind, v |-> entries]

(* A string whose characters the code looks at: v holds its characters. *)
Txt(chars) == [t |-> "text", s |-> "", v |-> chars]

Get(fields, f) == IF f \in DOMAIN fields THEN fields[f] ELSE Undef

HistoryField == "dedupe_history"

(* DEFAULT_RESOLUTION_CONFIG *)
DEFAULT_RESOLUTION_CONFIG ==
    [concatenateFields |-> {"Client Notes"},
     linkFields |-> {"Case Master View", "Events", "Relationships", "Matters", "Client Notes"},
     excludeFields |-> {"Box Legacy ID"},
     concatenateDelimiter |-> Str(" | ")]

(* value.trim() === '' over the strings of the model *)
IsBlank(x) == x \in {"", " "}

isEmpty(value) ==
    \/ value.t \in {"null", "undefined"}
    \/ value.t = "string" /\ IsBlank(value.s)
    \/ value.t = "text" /\ Trim(value.v) = <<>>
    \/ value.t = "array" /\ value.v = <<>>

(* !value : the falsy values among the modelled ones *)
Falsy(value) ==
    \/ value.t \in {"null", "undefined"}
    \/ value.t = "string" /\ value.s = ""
    \/ value.t = "text" /\ value.v = <<>>
    \/ value.t = "number" /\ value.v = <<0>>

(* a || b *)
OrElse(a, b) == IF Falsy(a) THEN b ELSE a

RECURSIVE JoinWith(_, _)
JoinWith(parts, delim) ==
    IF parts = <<>> THEN ""
    ELSE IF Len(parts) = 1 THEN parts[1]
    ELSE parts[1] \o delim \o JoinWith(Tail(parts), delim)

(* String(value) for strings and arrays of strings *)
StringOf(value) ==
    IF value.t = "array" THEN JoinWith(value.v, ",") ELSE value.s

(* Array.prototype.join(separator): an undefined separator is a comma *)
JoinSeparator(delim) == IF delim.t = "string" THEN delim.s ELSE ","

RECURSIVE AppendNew(_, _)
AppendNew(merged, ids) ==
    IF ids = <<>> THEN merged
    ELSE AppendNew(IF Head(ids) \in Range(merged) THEN merged ELSE Append(merged, Head(ids)),
                   Tail(ids))

Resolution(strategy, value, include, needsDecision, survivorValue, mergedValues, allValues) ==
    [strategy |-> strategy, value |-> value, include |-> include,
     needsDecision |-> needsDecision, survivorValue |-> survivorValue,
     mergedValues |-> mergedValues, allValues |-> allValues]

RECURSIVE MergeLinks(_, _, _)
MergeLinks(merged, toMerge, fieldName) ==
    IF toMerge = <<>> THEN merged
    ELSE LET val == Get(Head(toMerge).record.fields, fieldName)
         IN MergeLinks(IF val.t = "array" THEN AppendNew(merged, val.v) ELSE merged,
                       Tail(toMerge), fieldName)

RECURSIVE ConcatParts(_, _, _)
ConcatParts(parts, toMerge, fieldName) ==
    IF toMerge = <<>> THEN parts
    ELSE LET val == Get(Head(toMerge).record.fields, fieldName)
         IN ConcatParts(IF ~isEmpty(val) /\ StringOf(val) \notin Range(parts)
                            THEN Append(parts, StringOf(val)) ELSE parts,
                        Tail(toMerge), fieldName)

(* One entry of a resolution's mergedValues is the bare field value for    *)
(* link and concatenate fields, an object {recordId, name, value} for      *)
(* manual.                                                                 *)
ResolveField(fieldName, survivor, toMerge, schema, config) ==
    LET BareValue(v) == [wrapped |-> FALSE, recordId |-> "", name |-> "", value |-> v]
        WrappedValue(m, v) ==
            [wrapped |-> TRUE, recordId |-> m.record.id, name |-> m.name, value |-> v]
        survivorValue == Get(survivor.record.fields, fieldName)
        mergedOf(i) == Get(toMerge[i].record.fields, fieldName)
        bare == [i \in 1..Len(toMerge) |-> BareValue(mergedOf(i))]
        allValues == <<survivorValue>> \o [i \in 1..Len(toMerge) |-> mergedOf(i)]
        nonEmptyValues == SelectSeq(allValues, LAMBDA v : ~isEmpty(v))
    IN
    IF fieldName \in schema.computedFields
    THEN Resolution("computed", Undef, FALSE, FALSE, Undef, <<>>, <<>>)
    ELSE IF fieldName \in config.excludeFields
    THEN Resolution("excluded", Undef, FALSE, FALSE, Undef, <<>>, <<>>)
    ELSE IF fieldName \in config.linkFields \/ fieldName \in schema.linkFields
    THEN LET merged == MergeLinks(IF survivorValue.t = "array" THEN survivorValue.v ELSE <<>>,
                                  toMerge, fieldName)
         IN Resolution("merge_links",
                       IF Len(merged) > 0 THEN List(merged) ELSE Null,
                       Len(merged) > 0, FALSE, survivorValue, bare, <<>>)
    ELSE IF fieldName \in config.concatenateFields
    THEN LET parts == ConcatParts(IF ~isEmpty(survivorValue) THEN <<StringOf(survivorValue)>> ELSE <<>>,
                                  toMerge, fieldName)
             concatenated == JoinWith(parts, JoinSeparator(config.concatenateDelimiter))
         IN Resolution("concatenate",
                       IF concatenated = "" THEN Null ELSE Str(concatenated),
                       concatenated # "", FALSE, survivorValue, bare, <<>>)
    ELSE IF nonEmptyValues = <<>>
    THEN Resolution("auto", Null, FALSE, FALSE, Undef, <<>>, <<>>)
    ELSE IF Cardinality(Range(nonEmptyValues)) = 1
    THEN Resolution("auto", nonEmptyValues[1], TRUE, FALSE, survivorValue, <<>>, <<>>)
    ELSE Resolution("manual", Null, TRUE, TRUE, survivorValue,
                    [i \in 1..Len(toMerge) |-> WrappedValue(toMerge[i], mergedOf(i))],
                    nonEmptyValues)

(* computeFieldResolutions over the fields of the survivor alone. *)
computeFieldResolutions_SurvivorFieldsOnly(survivor, toMerge, schema, config) ==
    [fieldName \in DOMAIN survivor.record.fields |->
        ResolveField(fieldName, survivor, toMerge, schema, config)]

computeFieldResolutions(survivor, toMerge, schema, config) ==
    LET allFields == DOMAIN survivor.record.fields \cup
                     UNION {DOMAIN toMerge[i].record.fields : i \in 1..Len(toMerge)}
    IN [fieldName \in allFields |-> ResolveField(fieldName, survivor, toMerge, schema, config)]

applyFieldSelections(resolutions, selections) ==
    [fieldName \in DOMAIN resolutions |->
        IF fieldName \in DOMAIN selections
        THEN [resolutions[fieldName] EXCEPT
                 !.strategy = selections[fieldName].strategy,
                 !.value = selections[fieldName].value,
                 !.include = (selections[fieldName].include # "false"),
                 !.needsDecision = FALSE]
        ELSE resolutions[fieldName]]

hasUnresolvedDecisions(resolutions) ==
    \E fieldName \in DOMAIN resolutions : resolutions[fieldName].needsDecision

(* generateMergeId: 'mrg_' followed by a random token.  The token is an    *)
(* input of the operators that draw one.                                   *)
generateMergeId(token) == "mrg_" \o token

(* generateMergeId().replace('mrg_', 'unmrg_') *)
generateUnmergeId(token) == "unmrg_" \o token

extractLinkedRecords(fields, schema) ==
    LET present == {fieldName \in schema.linkFields :
                       /\ Get(fields, fieldName).t = "array"
                       /\ Len(Get(fields, fieldName).v) > 0}
    IN [fieldName \in present |-> fields[fieldName]]

(* The try block of parseDedupeHistory with no catch block: the exception  *)
(* leaves the function.                                                    *)
TryParseHistory_NoCatch(historyField) ==
    LET raises == \/ historyField.t \notin {"json", "number"}
                  \/ historyField.t = "json" /\ historyField.s \in {"invalid", "null"}
    IN [threw |-> raises,
        value |-> IF ~raises /\ historyField.t = "json"
                        /\ historyField.s \in {"array", "wrapped", "legacy"}
                  THEN historyField.v ELSE <<>>]

(* The try block of parseDedupeHistory and its catch block.  JSON.parse    *)
(* raises on text that is not JSON (a value that is not a string is        *)
(* converted to text first; a number parses as itself); reading            *)
(* dedupe_history of the document null raises; a property a number, a      *)
(* string or another object does not have reads as undefined.  The catch   *)
(* block returns [].                                                       *)
TryParseHistory(historyField) ==
    LET raises == \/ historyField.t \notin {"json", "number"}
                  \/ historyField.t = "json" /\ historyField.s \in {"invalid", "null"}
    IN [threw |-> FALSE,
        value |-> IF ~raises /\ historyField.t = "json"
                        /\ historyField.s \in {"array", "wrapped", "legacy"}
                  THEN historyField.v ELSE <<>>]

parseDedupeHistory(historyField) ==
    IF Falsy(historyField) THEN <<>> ELSE TryParseHistory(historyField).value

(* JSON.stringify of one history entry: an undefined element of an array   *)
(* becomes null, an undefined property of an object is dropped (and reads  *)
(* as undefined again after JSON.parse).                                   *)
StringifyMergedValue(mv) ==
    IF ~mv.wrapped /\ mv.value.t = "undefined" THEN [mv EXCEPT !.value = Null] ELSE mv

StringifyDecision(decision) ==
    [decision EXCEPT
        !.mergedValues = [i \in 1..Len(@) |-> StringifyMergedValue(@[i])],
        !.allValues = [i \in 1..Len(@) |-> IF @[i].t = "undefined" THEN Null ELSE @[i]]]

StringifyEntry(entry) ==
    IF "field_decisions" \in DOMAIN entry
    THEN [entry EXCEPT !.field_decisions =
             [fieldName \in DOMAIN @ |-> StringifyDecision(@[fieldName])]]
    ELSE entry

(* JSON.stringify(history, null, 2) *)
StringifyHistory(history) ==
    Json("array", [i \in 1..Len(history) |-> StringifyEntry(history[i])])

(* A snapshot that leaves the history field out. *)
FieldSnapshot_WithoutHistory(fields) ==
    [f \in DOMAIN fields \ {HistoryField} |-> fields[f]]

(* field_snapshot: { ...m.record.fields } *)
FieldSnapshot(fields) == fields

(* The filter of the decisions without its computed-field test. *)
DecidedFields_IgnoringComputed(fieldDecisions, schema) ==
    {fieldName \in DOMAIN fieldDecisions :
        /\ fieldDecisions[fieldName].include
        /\ fieldName \notin DEFAULT_RESOLUTION_CONFIG.excludeFields}

(* Lines 160-166: the fields buildMergePayload takes from the decisions. *)
DecidedFields(fieldDecisions, schema) ==
    {fieldName \in DOMAIN fieldDecisions :
        /\ fieldDecisions[fieldName].include
        /\ fieldName \notin schema.computedFields
        /\ fieldName \notin DEFAULT_RESOLUTION_CONFIG.excludeFields}

buildMergePayload(survivor, toMerge, fieldDecisions, schema, options, token) ==
    LET mergeId == generateMergeId(token)
        historyEntry ==
            [merge_id |-> mergeId,
             action |-> "merge",
             confidence |-> OrElse(options.confidence, Null),
             match_reasons |-> OrElse(options.matchReasons, List(<<>>)),
             survivor_record_id |-> survivor.record.id,
             merged_records |->
                 [i \in 1..Len(toMerge) |->
                     [original_record_id |-> toMerge[i].record.id,
                      field_snapshot |-> FieldSnapshot(toMerge[i].record.fields),
                      linked_records |-> extractLinkedRecords(toMerge[i].record.fields, schema)]],
             field_decisions |-> fieldDecisions,
             performed_by |-> OrElse(options.performedBy, Str("user")),
             notes |-> OrElse(options.notes, Str(""))]
        decided == DecidedFields(fieldDecisions, schema)
        existingHistory == parseDedupeHistory(Get(survivor.record.fields, HistoryField))
        updateFields ==
            [fieldName \in decided \cup {HistoryField} |->
                IF fieldName = HistoryField
                THEN StringifyHistory(Append(existingHistory, historyEntry))
                ELSE fieldDecisions[fieldName].value]
    IN [threw |-> FALSE,
        mergeId |-> mergeId,
        historyEntry |-> historyEntry,
        updateFields |-> updateFields,
        recordsToDelete |-> [i \in 1..Len(toMerge) |-> toMerge[i].record.id]]

(* createFields of one snapshot: the fields not computed in the schema. *)
CreateFields(field_snapshot, schema) ==
    [key \in {k \in DOMAIN field_snapshot : k \notin schema.computedFields} |->
        field_snapshot[key]]

(* A lookup that takes any merge entry of the history for the one asked    *)
(* for.                                                                    *)
FindMergeEvent_AnyMerge(history, mergeId) ==
    {i \in 1..Len(history) : "merge_id" \in DOMAIN history[i]}

(* history.find(h => h.merge_id === mergeId): the positions that match. *)
FindMergeEvent(history, mergeId) ==
    {i \in 1..Len(history) :
        "merge_id" \in DOMAIN history[i] /\ history[i].merge_id = mergeId}

buildUnmergePayload(survivor, mergeId, schema, token) ==
    LET history == parseDedupeHistory(Get(survivor.fields, HistoryField))
        found == FindMergeEvent(history, mergeId)
    IN
    IF found = {} THEN [threw |-> TRUE]
    ELSE
    LET mergeEvent == history[CHOOSE i \in found : \A j \in found : i <= j]
        unmergeId == generateUnmergeId(token)
        recordsToCreate ==
            [i \in 1..Len(mergeEvent.merged_records) |->
                [originalId |-> mergeEvent.merged_records[i].original_record_id,
                 fields |-> CreateFields(mergeEvent.merged_records[i].field_snapshot, schema),
                 linkedRecords |-> mergeEvent.merged_records[i].linked_records]]
        unmergeHistoryEntry ==
            [merge_id |-> unmergeId,
             action |-> "unmerge",
             original_merge_id |-> mergeId,
             survivor_record_id |-> survivor.id,
             restored_records |->
                 [i \in 1..Len(mergeEvent.merged_records) |->
                     mergeEvent.merged_records[i].original_record_id],
             performed_by |-> Str("user"),
             notes |-> Str("Unmerge of " \o mergeId)]
        updatedHistory == Append(history, unmergeHistoryEntry)
    IN [threw |-> FALSE,
        unmergeId |-> unmergeId,
        mergeEvent |-> mergeEvent,
        recordsToCreate |-> recordsToCreate,
        survivorUpdates |-> [f \in {HistoryField} |-> StringifyHistory(updatedHistory)],
        unmergeHistoryEntry |-> unmergeHistoryEntry]

(* What the store holds after a PATCH of the record with these fields: the *)
(* request body is JSON, so an undefined value is not sent; a null value   *)
(* clears the field, and a cleared field is absent from the record.        *)
PatchFields(fields, update) ==
    LET sent == {f \in DOMAIN update : update[f].t # "undefined"}
        cleared == {f \in sent : update[f].t = "null"}
    IN [f \in (DOMAIN fields \cup sent) \ cleared |->
           IF f \in sent THEN update[f] ELSE fields[f]]

(***************************************************************************)
(* Inputs of the payload specification: a survivor S and one record M to   *)
(* merge into it, the schema read at merge time, the schema read at        *)
(* unmerge time, and the user's field selections.                          *)
(***************************************************************************)
Present(assign) == [f \in {g \in DOMAIN assign : assign[g].t # "undefined"} |-> assign[f]]

NoFields == [f \in {} |-> Undef]

(* An entry of an earlier merge, and an entry of the legacy layout. *)
OldEntry(survivorId, mergedId) ==
    [merge_id |-> "mrg_old" \o mergedId,
     action |-> "merge",
     confidence |-> Null,
     match_reasons |-> List(<<>>),
     survivor_record_id |-> survivorId,
     merged_records |->
         <<[original_record_id |-> mergedId,
            field_snapshot |-> Present([f \in {"Name"} |-> Str("v0")]),
            linked_records |-> NoFields]>>,
     field_decisions |-> NoFields,
     performed_by |-> Str("user"),
     notes |-> Str("")]

PayloadFieldNames == {"Name", "Calc", "Links", "Box Legacy ID", HistoryField}

(* The survivor's history field: absent, the current layout, the legacy    *)
(* layout, or text that is not JSON.                                       *)
SurvivorFieldSets ==
    LET LegacyEntry == [merged_from |-> "Y", merged_at |-> "2023"]
        SurvivorHistories ==
            {Undef, Json("array", <<OldEntry("S", "Z")>>),
             Json("legacy", <<LegacyEntry>>), Json("invalid", <<>>)}
    IN {Present(a) : a \in
        {a \in [PayloadFieldNames -> {Undef, Str("v1"), Str("c1"), List(<<"l1">>)} \cup SurvivorHistories] :
            /\ a["Name"] \in {Undef, Str("v1")}
            /\ a["Calc"] = Str("c1")
            /\ a["Links"] \in {Undef, List(<<"l1">>)}
            /\ a["Box Legacy ID"] = Undef
            /\ a[HistoryField] \in SurvivorHistories}}

MergedFieldSets ==
    LET MergedHistories == {Undef, Json("array", <<OldEntry("M", "W")>>)}
    IN {Present(a) : a \in
        {a \in [PayloadFieldNames ->
                   {Undef, Str("v1"), Str("v2"), Str("c2"), Str("b1"), List(<<"l1", "l2">>)}
                       \cup MergedHistories] :
            /\ a["Name"] \in {Str("v1"), Str("v2")}
            /\ a["Calc"] = Str("c2")
            /\ a["Links"] \in {Undef, List(<<"l1", "l2">>)}
            /\ a["Box Legacy ID"] \in {Undef, Str("b1")}
            /\ a[HistoryField] \in MergedHistories}}

(* The configuration the components pass to computeFieldResolutions:       *)
(* { ...fieldConfig, excludeFields: fieldConfig.excludeFromMerge }.        *)
ReviewConfig(schema) ==
    [concatenateFields |-> DEFAULT_RESOLUTION_CONFIG.concatenateFields,
     linkFields |-> schema.linkFields,
     excludeFields |-> DEFAULT_RESOLUTION_CONFIG.excludeFields,
     concatenateDelimiter |-> Undef]

(* handleFieldSelect: the user picks the survivor's or the other record's  *)
(* value for a field.                                                      *)
SelectionsFor(sFields, mFields) ==
    LET Selection(strategy, value) ==
            [strategy |-> strategy, value |-> value, include |-> "true"]
        pick(f) == {<<>>, <<Selection("keep_a", Get(sFields, f))>>,
                    <<Selection("keep_b", Get(mFields, f))>>}
    IN {[f \in {g \in {"Name", "Calc"} : c[g] # <<>>} |-> c[f][1]] :
           c \in {c \in [{"Name", "Calc"} -> pick("Name") \cup pick("Calc")] :
                     c["Name"] \in pick("Name") /\ c["Calc"] \in pick("Calc")}}

ReviewOptions ==
    [confidence |-> Num(85), matchReasons |-> List(<<"name">>),
     performedBy |-> Str("user"), notes |-> Str("")]

RandomTokens == {"k1", "k2"}

(* getTableSchema gives the computed and the link fields of the table, at  *)
(* the merge and again at the unmerge.  The history field is the long-text *)
(* field the application writes its log to.                                *)
PayloadInit ==
    /\ \E sFields \in SurvivorFieldSets, mFields \in MergedFieldSets :
         LET MergeSchemas == [computedFields : {{}, {"Calc"}}, linkFields : {{"Links"}}]
             UnmergeSchemas == [computedFields : {{}, {"Calc"}, {"Calc", "Name"}},
                                linkFields : {{"Links"}}]
         IN
         \E selections \in SelectionsFor(sFields, mFields),
            schema \in MergeSchemas, schemaAtUnmerge \in UnmergeSchemas :
            pin = [survivor |-> [record |-> [id |-> "S", fields |-> sFields], name |-> "Ann"],
                   merged |-> [record |-> [id |-> "M", fields |-> mFields], name |-> "Anne"],
                   schema |-> schema,
                   schemaAtUnmerge |-> schemaAtUnmerge,
                   selections |-> selections]
    /\ presult = [stage |-> "start"]
    /\ ScoreIdle /\ GroupIdle /\ FlowIdle

(* computeFieldResolutions, then applyFieldSelections with the selections. *)
Resolve ==
    /\ presult.stage = "start"
    /\ presult' =
           [stage |-> "resolved",
            resolutions |->
                applyFieldSelections(
                    computeFieldResolutions(pin.survivor, <<pin.merged>>, pin.schema,
                                            ReviewConfig(pin.schema)),
                    pin.selections)]
    /\ UNCHANGED <<pin, scoreVars, groupVars, flowVars>>

(* buildMergePayload on the resolutions, its updateFields applied to S. *)
BuildMerge ==
    /\ presult.stage = "resolved"
    /\ \E token \in RandomTokens :
         LET payload == buildMergePayload(pin.survivor, <<pin.merged>>, presult.resolutions,
                                          pin.schema, ReviewOptions, token)
         IN presult' =
                [stage |-> "merged",
                 resolutions |-> presult.resolutions,
                 merge |-> payload,
                 survivorAfter |->
                     [id |-> pin.survivor.record.id,
                      fields |-> IF payload.threw THEN pin.survivor.record.fields
                                 ELSE PatchFields(pin.survivor.record.fields,
                                                  payload.updateFields)]]
    /\ UNCHANGED <<pin, scoreVars, groupVars, flowVars>>

(* buildUnmergePayload on the updated S, for the merge just made or for an *)
(* id its history does not hold.                                           *)
BuildUnmerge ==
    /\ presult.stage = "merged"
    /\ ~presult.merge.threw
    /\ \E mergeId \in {presult.merge.mergeId, "mrg_none"}, token \in RandomTokens :
         presult' =
             [stage |-> "unmerged",
              resolutions |-> presult.resolutions,
              merge |-> presult.merge,
              survivorAfter |-> presult.survivorAfter,
              requested |-> mergeId,
              unmerge |-> buildUnmergePayload(presult.survivorAfter, mergeId,
                                              pin.schemaAtUnmerge, token)]
    /\ UNCHANGED <<pin, scoreVars, groupVars, flowVars>>

PayloadNext == Resolve \/ BuildMerge \/ BuildUnmerge

SpecPayload == PayloadInit /\ [][PayloadNext]_vars

(* C1: whenever at least one of the resolutions handed to                  *)
(* buildMergePayload still has needsDecision = TRUE, buildMergePayload     *)
(* rejects them: it raises an error and returns no payload.                *)
Cex_C1_RejectsUnresolved ==
    (presult.stage \in {"merged", "unmerged"} /\ hasUnresolvedDecisions(presult.resolutions))
        => presult.merge.threw

(* The history the store holds on S after the merge, and the case of an    *)
(* unmerge that names the merge just made.                                 *)
HistoryAfterMerge == parseDedupeHistory(Get(presult.survivorAfter.fields, HistoryField))
RoundTripCase == presult.stage = "unmerged" /\ presult.requested = presult.merge.mergeId

(* C3: merge followed by unmerge is a round trip.  After S is merged with  *)
(* M (buildMergePayload, updateFields applied to S) and buildUnmergePayload*)
(* is called on the updated S with the returned mergeId, recordsToCreate   *)
(* holds exactly one record, for M, whose fields are M's fields without    *)
(* the fields computed in the schema, and the history written back to S is *)
(* the stored history, with the merge entry unmodified, followed by one    *)
(* new "unmerge" entry whose original_merge_id is that mergeId.            *)
Thm_C3_MergeUnmergeRoundTrip ==
    RoundTripCase =>
        LET u == presult.unmerge
            F == pin.merged.record.fields
            kept == {f \in DOMAIN F : f \notin pin.schemaAtUnmerge.computedFields}
            H1 == HistoryAfterMerge
            H2 == parseDedupeHistory(presult.unmerge.survivorUpdates[HistoryField])
            written == StringifyEntry(presult.merge.historyEntry)
            withId(H) == {i \in 1..Len(H) :
                             "merge_id" \in DOMAIN H[i] /\ H[i].merge_id = presult.merge.mergeId}
        IN /\ ~u.threw
           /\ Len(u.recordsToCreate) = 1
           /\ u.recordsToCreate[1].originalId = pin.merged.record.id
           /\ u.recordsToCreate[1].fields = [f \in kept |-> F[f]]
           /\ Len(H1) >= 1
           /\ H1[Len(H1)] = written
           /\ Len(H2) = Len(H1) + 1
           /\ \A i \in 1..Len(H1) : H2[i] = H1[i]
           /\ withId(H2) = {Len(H1)}
           /\ H2[Len(H2)].action = "unmerge"
           /\ H2[Len(H2)].original_merge_id = presult.merge.mergeId

Wit_C3_RoundTripWithOlderHistory ==
    /\ RoundTripCase
    /\ ~presult.unmerge.threw
    /\ Len(HistoryAfterMerge) = 2
    /\ HistoryField \in DOMAIN pin.merged.record.fields
    /\ "Calc" \in pin.schemaAtUnmerge.computedFields
    /\ "Calc" \notin DOMAIN presult.unmerge.recordsToCreate[1].fields

LibInit ==
    /\ \/ \E sLinks \in {Undef, List(<<"l1">>), List(<<"l1", "l1">>)},
              sNotes \in {Undef, Str("Called once")},
              sName \in {Undef, Str("v1"), Str(" ")},
              mLinks \in {Undef, List(<<"l2", "l1", "l2">>)},
              mNotes \in {Undef, Str("Called once"), Str("Called twice")},
              mName \in {Undef, Str("v1"), Str("v2")},
              others \in {0, 1},
              computedFields \in {{}, {"Calc"}},
              defaultConfig \in BOOLEAN :
            LET fields(links, notes, name, calc) ==
                    Present([f \in {"Links", "Client Notes", "Name", "Calc", "Box Legacy ID"} |->
                                CASE f = "Links" -> links
                                  [] f = "Client Notes" -> notes
                                  [] f = "Name" -> name
                                  [] f = "Calc" -> calc
                                  [] OTHER -> Str("b1")])
                snap(id, name, fs) == [record |-> [id |-> id, fields |-> fs], name |-> name]
                schema == [computedFields |-> computedFields, linkFields |-> {"Links"}]
            IN pin = [call |-> "resolve",
                      survivor |-> snap("S", "Ann", fields(sLinks, sNotes, sName, Str("c1"))),
                      toMerge |->
                          <<snap("M", "Anne", fields(mLinks, mNotes, mName, Str("c2")))>>
                          \o (IF others = 1
                              THEN <<snap("N", "Anna",
                                          fields(List(<<"l3", "l2">>), Str("Called twice"),
                                                 Str("v1"), Undef))>>
                              ELSE <<>>),
                      schema |-> schema,
                      config |-> IF defaultConfig THEN DEFAULT_RESOLUTION_CONFIG
                                 ELSE ReviewConfig(schema)]
       \/ \E historyField \in
                  {Undef, Null, Str(""), Str("v1"), Num(5), List(<<"l1">>),
                   Json("array", <<>>),
                   Json("array", <<OldEntry("S", "Z")>>),
                   Json("array", <<OldEntry("S", "Z"), OldEntry("S", "Y")>>),
                   Json("wrapped", <<OldEntry("S", "Z")>>),
                   Json("legacy", <<[merged_from |-> "Y", merged_at |-> "2023"]>>),
                   Json("object", <<>>), Json("null", <<>>), Json("scalar", <<>>),
                   Json("invalid", <<>>)},
              mergeId \in {"mrg_oldZ", "mrg_oldY", "mrg_none"},
              computedFields \in {{}, {"Name"}} :
            pin = [call |-> "history",
                   historyField |-> historyField,
                   mergeId |-> mergeId,
                   schema |-> [computedFields |-> computedFields, linkFields |-> {"Links"}]]
    /\ presult = [stage |-> "start"]
    /\ ScoreIdle /\ GroupIdle /\ FlowIdle

(* computeFieldResolutions(survivor, toMerge, schema, config) *)
LibResolve ==
    /\ presult.stage = "start"
    /\ pin.call = "resolve"
    /\ presult' = [stage |-> "resolved",
                   resolutions |-> computeFieldResolutions(pin.survivor, pin.toMerge,
                                                           pin.schema, pin.config)]
    /\ UNCHANGED <<pin, scoreVars, groupVars, flowVars>>

(* parseDedupeHistory(historyField): whether an exception left it, and the *)
(* value it returned.                                                      *)
LibParse ==
    /\ presult.stage = "start"
    /\ pin.call = "history"
    /\ presult' = [stage |-> "parsed",
                   threw |-> ~Falsy(pin.historyField) /\ TryParseHistory(pin.historyField).threw,
                   history |-> parseDedupeHistory(pin.historyField)]
    /\ UNCHANGED <<pin, scoreVars, groupVars, flowVars>>

(* buildUnmergePayload(survivor, mergeId, schema) on a record whose history *)
(* field holds the value.                                                  *)
LibUnmerge ==
    /\ presult.stage = "start"
    /\ pin.call = "history"
    /\ \E token \in RandomTokens :
         presult' = [stage |-> "unmerge",
                     unmerge |->
                         buildUnmergePayload(
                             [id |-> "S",
                              fields |-> Present([f \in {"Name", HistoryField} |->
                                                     IF f = "Name" THEN Str("v1")
                                                     ELSE pin.historyField])],
                             pin.mergeId, pin.schema, token)]
    /\ UNCHANGED <<pin, scoreVars, groupVars, flowVars>>

LibNext == LibResolve \/ LibParse \/ LibUnmerge

SpecLib == LibInit /\ [][LibNext]_vars

(* The merge ids the parsed history of the record holds. *)
HistoryIds ==
    LET history == parseDedupeHistory(pin.historyField)
    IN {history[i].merge_id : i \in {j \in 1..Len(history) : "merge_id" \in DOMAIN history[j]}}

(* C14: buildUnmergePayload called with a merge id that does not occur in  *)
(* the survivor's parsed history (also when the history field is empty or  *)
(* malformed) fails with a not-found error and produces no payload: no     *)
(* records to create, no survivor update and no unmerge history entry.     *)
Thm_C14_UnknownMergeIdNotFound ==
    (presult.stage = "unmerge" /\ pin.mergeId \notin HistoryIds) =>
        /\ presult.unmerge.threw
        /\ DOMAIN presult.unmerge = {"threw"}

(* The lookup failed on a history that holds other merges. *)
Wit_C14_NotFoundAmongOtherMerges ==
    /\ presult.stage = "unmerge"
    /\ pin.mergeId \notin HistoryIds
    /\ HistoryIds # {}
    /\ presult.unmerge.threw

(* The fields of a computeFieldResolutions call that are neither computed  *)
(* nor excluded, and its link fields among them.                           *)
OpenFields ==
    DOMAIN presult.resolutions \ (pin.schema.computedFields \cup pin.config.excludeFields)

LinkFieldsOfCall == OpenFields \cap (pin.config.linkFields \cup pin.schema.linkFields)

(* The values of a field on the survivor and then on the records to merge, *)
(* in order.                                                               *)
SourceValues(fieldName) ==
    <<Get(pin.survivor.record.fields, fieldName)>>
        \o [i \in 1..Len(pin.toMerge) |-> Get(pin.toMerge[i].record.fields, fieldName)]

RECURSIVE Flatten(_)
Flatten(lists) ==
    IF lists = <<>> THEN <<>>
    ELSE (IF Head(lists).t = "array" THEN Head(lists).v ELSE <<>>) \o Flatten(Tail(lists))

(* C15: for every field that is not computed and not excluded and is       *)
(* configured as a link field or typed as one in the schema,               *)
(* computeFieldResolutions returns strategy merge_links whose value is the *)
(* union of the linked-id lists of the survivor and of all subsumed        *)
(* records, in first-seen order and with no id occurring twice, for any    *)
(* input lists; include is true exactly when that union is non-empty.      *)
Cex_C15_LinkUnionWithoutRepeats ==
    presult.stage = "resolved" =>
        \A fieldName \in LinkFieldsOfCall :
            LET r == presult.resolutions[fieldName]
                all == Flatten(SourceValues(fieldName))
                ids == IF r.value.t = "array" THEN r.value.v ELSE <<>>
                first(x) == CHOOSE k \in 1..Len(all) :
                                all[k] = x /\ \A m \in 1..(k - 1) : all[m] # x
            IN /\ r.strategy = "merge_links"
               /\ r.include <=> all # <<>>
               /\ r.include <=> r.value.t = "array"
               /\ Range(ids) = Range(all)
               /\ \A i, j \in 1..Len(ids) : i < j => ids[i] # ids[j]
               /\ \A i, j \in 1..Len(ids) :
                     (i < j /\ ids[i] # ids[j]) => first(ids[i]) < first(ids[j])

(* C16: for every field that is not computed and not excluded and is       *)
(* listed in the configuration's concatenateFields, computeFieldResolutions*)
(* returns strategy concatenate whose value is the distinct non-empty      *)
(* stringified values of the survivor and then of the subsumed records,    *)
(* joined with the configured delimiter, with include true exactly when    *)
(* the result is non-empty; under the default configuration 'Client Notes' *)
(* is such a field with delimiter ' | ', and survivor 'Called once' with   *)
(* subsumed 'Called twice' resolves to 'Called once | Called twice'.       *)
Cex_C16_ConcatenateFields ==
    presult.stage = "resolved" =>
        \A fieldName \in OpenFields \cap pin.config.concatenateFields :
            LET r == presult.resolutions[fieldName]
                texts == SelectSeq(SourceValues(fieldName), LAMBDA v : ~isEmpty(v))
                distinct == AppendNew(<<>>, [i \in 1..Len(texts) |-> StringOf(texts[i])])
                joined == JoinWith(distinct, JoinSeparator(pin.config.concatenateDelimiter))
            IN /\ r.strategy = "concatenate"
               /\ r.include <=> joined # ""
               /\ r.value = IF joined = "" THEN Null ELSE Str(joined)

(* C17: computeFieldResolutions returns exactly one resolution for every   *)
(* field name present on the survivor or on any subsumed record, and for a *)
(* field that is neither computed, excluded, link nor concatenate: if all  *)
(* source values are empty the resolution is auto with include = false; if *)
(* the non-empty source values are all equal it is auto with that value    *)
(* and include = true; otherwise it is manual with needsDecision = true    *)
(* and include = true.  No resolution has needsDecision = true together    *)
(* with include = false.                                                   *)
Thm_C17_OneResolutionPerField ==
    presult.stage = "resolved" =>
        /\ DOMAIN presult.resolutions =
               DOMAIN pin.survivor.record.fields
                   \cup UNION {DOMAIN pin.toMerge[i].record.fields : i \in 1..Len(pin.toMerge)}
        /\ \A fieldName \in DOMAIN presult.resolutions :
              presult.resolutions[fieldName].needsDecision
                  => presult.resolutions[fieldName].include
        /\ \A fieldName \in (OpenFields \ LinkFieldsOfCall) \ pin.config.concatenateFields :
              LET r == presult.resolutions[fieldName]
                  filled == {v \in Range(SourceValues(fieldName)) : ~isEmpty(v)}
              IN CASE filled = {} ->
                          r.strategy = "auto" /\ ~r.include /\ ~r.needsDecision
                   [] Cardinality(filled) = 1 ->
                          /\ r.strategy = "auto" /\ r.include /\ ~r.needsDecision
                          /\ r.value \in filled
                   [] OTHER ->
                          r.strategy = "manual" /\ r.include /\ r.needsDecision

(* The survivor's field is empty, two subsumed records carry the same      *)
(* value, and the resolution takes it.                                     *)
Wit_C17_EmptySurvivorTakesValue ==
    /\ presult.stage = "resolved"
    /\ Len(pin.toMerge) = 2
    /\ isEmpty(Get(pin.survivor.record.fields, "Name"))
    /\ "Name" \in DOMAIN pin.survivor.record.fields
    /\ presult.resolutions["Name"].strategy = "auto"
    /\ presult.resolutions["Name"].include
    /\ presult.resolutions["Name"].value = Str("v1")
    /\ \E fieldName \in DOMAIN presult.resolutions : presult.resolutions[fieldName].needsDecision

(* C18: parseDedupeHistory never throws and always returns a list: a JSON  *)
(* array is returned as is, the legacy object with a _merge_history array  *)
(* gives that array, and an absent value, text that is not JSON, or any    *)
(* other JSON document (null, number, string, object without a history     *)
(* array) gives the empty list.                                            *)
Thm_C18_ParseNeverThrows ==
    presult.stage = "parsed" =>
        LET h == pin.historyField
        IN /\ ~presult.threw
           /\ DOMAIN presult.history = 1..Len(presult.history)
           /\ (h.t = "json" /\ h.s \in {"array", "legacy"}) => presult.history = h.v
           /\ (h.t # "json" \/ h.s \in {"invalid", "null", "scalar", "object"})
                 => presult.history = <<>>

(* The document null was parsed: reading its dedupe_history raised inside  *)
(* the try block and the empty list came back.                             *)
Wit_C18_NullDocument ==
    /\ presult.stage = "parsed"
    /\ pin.historyField = Json("null", <<>>)
    /\ presult.history = <<>>
    /\ ~presult.threw

(***************************************************************************)
(* The flows that write to the external store (the Airtable table).        *)
(*                                                                         *)
(* store.recs maps the id of every record the table holds to its fields;   *)
(* store.created counts the records the table has created.  scanned is the *)
(* candidate list ScanResults holds (snapshots of the records as they were *)
(* read) and whether a background resync is in flight; bulk is the state   *)
(* of BulkMergeModal; viewer is the record list HistoryViewer loaded.      *)
(* App renders one view at a time: ScanResults is unmounted, and its       *)
(* candidate list lost, while MergeReview or HistoryViewer is shown, and   *)
(* HistoryViewer's list is lost when the scan view is shown again.         *)
(* lastWrite and lastDelete record the last history write and the last     *)
(* deletion made by a flow, with what the store held just before; lastRun  *)
(* records the requests the last merge issued, in order, and what the      *)
(* flow logged about it.                                                   *)
(***************************************************************************)

(* The most operations on the store in one behaviour. *)
MaxOps == 3

(* The order in which the table returns its records. *)
RecordOrder(st) ==
    SelectSeq(<<"S", "M1", "M2">> \o [i \in 1..st.created |-> "N" \o ToString(i)],
              LAMBDA id : id \in DOMAIN st.recs)

(* The schema and the configuration of the client table in the flows. *)
FlowSchema == [computedFields |-> {}, linkFields |-> {}]

Truthy(value) == ~Falsy(value)

(* The points added when the field is missing. *)
Weight_WhenMissing(cond, w) == IF cond THEN 0 ELSE w

(* if (cond) score += w *)
Weight(cond, w) == IF cond THEN w ELSE 0

(* NonBlank is fields[name]?.trim(), LinkCount (fields[name] || []).length  *)
(* of a link field (an array or absent).  No string of the model holds     *)
(* 'null@blank' as a proper part, so includes('null@blank') is equality.   *)
scoreRecordQuality(fields) ==
    LET has(f) == Truthy(Get(fields, f))
        NonBlank(value) == value.t = "string" /\ ~IsBlank(value.s)
        LinkCount(value) == IF value.t = "array" THEN Len(value.v) ELSE 0
    IN Weight(NonBlank(Get(fields, "A#")), 50)
       + Weight(has("DOB"), 30)
       + Weight(has("clio_contact_id"), 25)
       + Weight(has("PPID"), 20)
       + Weight(has("Box_Folder_ID"), 40)
       + Weight(has("box_shared_link"), 10)
       + Weight(NonBlank(Get(fields, "Phone Number")), 15)
       + Weight(NonBlank(Get(fields, "Client Email"))
                    /\ Get(fields, "Client Email").s # "null@blank", 15)
       + Weight(has("Address Line 1") \/ has("Address"), 10)
       + Weight(has("City"), 5)
       + Weight(has("State"), 5)
       + Weight(has("Zip (5)"), 5)
       + LinkCount(Get(fields, "Case Master View")) * 100
       + LinkCount(Get(fields, "Events")) * 50
       + LinkCount(Get(fields, "Relationships")) * 30
       + LinkCount(Get(fields, "Matters")) * 80
       + LinkCount(Get(fields, "Client Notes")) * 20
       + Weight(has("First Name"), 5)
       + Weight(has("Middle Name"), 3)
       + Weight(has("Family Name"), 5)
       + Weight(has("Entry Date"), 10)

(* buildFullName and getMatchKey of a record that carries only a Client    *)
(* Name, written in its canonical form.                                    *)
buildFullName(fields) ==
    IF Truthy(Get(fields, "Client Name")) THEN fields["Client Name"].s ELSE ""

getMatchKey(fields) == buildFullName(fields)

RECURSIVE PairsFrom(_, _, _)
PairsFrom(i, j, n) ==
    IF i >= n THEN <<>>
    ELSE IF j > n THEN PairsFrom(i + 1, i + 2, n)
    ELSE <<<<i, j>>>> \o PairsFrom(i, j + 1, n)

(***************************************************************************)
(* matching.js, findDuplicateCandidates over any record list: the key      *)
(* buckets, then the fuzzy index, both behind one set of processed pairs.  *)
(* A record list is a sequence of [id, fields]; search[i] is the sequence  *)
(* of refIndex values fuse.search returns for the i-th indexed record in   *)
(* the order it returns them, and otherNames is what the name comparison   *)
(* of scoreMatch yields for two records whose names differ.                *)
(***************************************************************************)

(* The fields scoreMatch reads, of a record that carries no phone, email,  *)
(* date of birth or address.                                               *)
ScoreFieldsOf(fields) ==
    [ids |-> [f \in IdFieldSet |-> IF Truthy(Get(fields, f)) THEN fields[f].s ELSE ""],
     phone |-> <<>>, email |-> <<>>, dob |-> ""]

(* Lines 284-292: the keys of the buckets in the order the Map holds them, *)
(* the order of first appearance; a record without a key joins no bucket.  *)
RECURSIVE BucketKeys(_, _)
BucketKeys(records, seen) ==
    IF records = <<>> THEN <<>>
    ELSE LET key == getMatchKey(Head(records).fields)
         IN IF key = "" \/ key \in seen THEN BucketKeys(Tail(records), seen)
            ELSE <<key>> \o BucketKeys(Tail(records), seen \cup {key})

(* Lines 298-307: the pairs of record indexes the buckets visit, bucket    *)
(* after bucket, i before j within a bucket.                               *)
RECURSIVE BucketPairs(_, _)
BucketPairs(records, keys) ==
    IF keys = <<>> THEN <<>>
    ELSE LET group == SelectSeq([i \in 1..Len(records) |-> i],
                                LAMBDA i : getMatchKey(records[i].fields) = Head(keys))
             inGroup == IF Len(group) < 2 THEN <<>> ELSE PairsFrom(1, 2, Len(group))
         IN [k \in 1..Len(inGroup) |-> <<group[inGroup[k][1]], group[inGroup[k][2]]>>]
            \o BucketPairs(records, Tail(keys))

(* Lines 355-359: the records the fuzzy index holds, those with a name.    *)
FuseRecords(records) ==
    SelectSeq([i \in 1..Len(records) |-> i],
              LAMBDA i : buildFullName(records[i].fields) # "")

(* Lines 368-383: the pairs the fuzzy phase visits, item after item, match *)
(* after match, the item itself skipped.                                   *)
RECURSIVE FuzzyPairs(_, _, _)
FuzzyPairs(fuseRecords, search, idx) ==
    IF idx > Len(fuseRecords) THEN <<>>
    ELSE LET matches == SelectSeq(search[idx], LAMBDA refIndex : refIndex # idx)
         IN [k \in 1..Len(matches) |-> <<fuseRecords[idx], fuseRecords[matches[k]]>>]
            \o FuzzyPairs(fuseRecords, search, idx + 1)

(* [idA, idB].sort().join('|') names the unordered pair of the two ids, no *)
(* id holding the separator.                                               *)
PairKey(records, pair) == {records[pair[1]].id, records[pair[2]].id}

(* Unseen without the set of processed pairs. *)
Unseen_NoProcessedPairs(records, pairs, processedPairs) == pairs

(* Lines 309-310 and 384-385: a pair whose key is among the processed ones *)
(* is passed over, any other is processed and its key added.               *)
RECURSIVE Unseen(_, _, _)
Unseen(records, pairs, processedPairs) ==
    IF pairs = <<>> THEN <<>>
    ELSE LET pairKey == PairKey(records, Head(pairs))
         IN IF pairKey \in processedPairs
            THEN Unseen(records, Tail(pairs), processedPairs)
            ELSE <<Head(pairs)>> \o Unseen(records, Tail(pairs), processedPairs \cup {pairKey})

(* Lines 417-422: the stable sort by tier, then by falling confidence.     *)
RECURSIVE SortCandidates(_)
SortCandidates(cands) ==
    IF cands = <<>> THEN <<>>
    ELSE LET last == cands[Len(cands)]
             sorted == SortCandidates(SubSeq(cands, 1, Len(cands) - 1))
             Before(c) == c.tier < last.tier
                          \/ (c.tier = last.tier /\ c.confidence >= last.confidence)
             n == Cardinality({k \in 1..Len(sorted) :
                                  \A h \in 1..k : Before(sorted[h])})
         IN SubSeq(sorted, 1, n) \o <<last>> \o SubSeq(sorted, n + 1, Len(sorted))

(* Lines 277-425. *)
FindAllCandidates(records, search, otherNames) ==
    LET visited == Unseen(records,
                          BucketPairs(records, BucketKeys(records, {}))
                              \o FuzzyPairs(FuseRecords(records), search, 1),
                          {})
        matchResult(pair) ==
            LET fieldsA == records[pair[1]].fields
                fieldsB == records[pair[2]].fields
            IN scoreMatch(ScoreFieldsOf(fieldsA), ScoreFieldsOf(fieldsB),
                          [name |-> IF buildFullName(fieldsA) = buildFullName(fieldsB)
                                    THEN [match |-> TRUE, score |-> 100]
                                    ELSE otherNames,
                           addrSim |-> 0 - 1])
        kept == SelectSeq(visited,
                          LAMBDA pair : matchResult(pair).confidence >= 70
                                        \/ matchResult(pair).isConflict)
        snap(i) == [record |-> records[i],
                    score |-> scoreRecordQuality(records[i].fields),
                    name |-> buildFullName(records[i].fields)]
        cand(k) ==
            LET a == kept[k][1]
                b == kept[k][2]
                aWins == scoreRecordQuality(records[a].fields)
                             >= scoreRecordQuality(records[b].fields)
            IN [id |-> "match_" \o ToString(k - 1),
                matchKey |-> buildFullName(records[a].fields),
                tier |-> matchResult(kept[k]).tier,
                confidence |-> matchResult(kept[k]).confidence,
                isConflict |-> matchResult(kept[k]).isConflict,
                survivor |-> snap(IF aWins THEN a ELSE b),
                merged |-> snap(IF aWins THEN b ELSE a)]
    IN SortCandidates([k \in 1..Len(kept) |-> cand(k)])

(* findDuplicateCandidates over the records the table returns.  The names  *)
(* of the table are one name or none, so the fuzzy index returns to each   *)
(* named record all the named records.                                     *)
findDuplicateCandidates(st) ==
    LET order == RecordOrder(st)
        records == [i \in 1..Len(order) |-> [id |-> order[i], fields |-> st.recs[order[i]]]]
        fuseRecords == FuseRecords(records)
    IN FindAllCandidates(records,
                         [idx \in 1..Len(fuseRecords) |-> [k \in 1..Len(fuseRecords) |-> k]],
                         [match |-> FALSE, score |-> 0])

(* The records whose quality is scored: a field read through trim(), the  *)
(* email, a field read for its truth, the two address fields and two link  *)
(* fields, each absent, empty or filled.                                   *)
QualityRecords ==
    {Present([f \in {"A#", "Client Email", "DOB", "Address", "Address Line 1",
                     "Events", "Client Notes"} |->
                 CASE f = "A#" -> aNumber
                   [] f = "Client Email" -> email
                   [] f = "DOB" -> dob
                   [] f = "Address" -> address
                   [] f = "Address Line 1" -> Undef
                   [] f = "Events" -> events
                   [] f = "Client Notes" -> notes]) :
        aNumber \in {Undef, Str(""), Str("1")},
        email \in {Undef, Str(""), Str("a@b")},
        dob \in {Undef, Str("1980-01-01")},
        address \in {Undef, Str("1 Main St")},
        events \in {Undef, List(<<>>), List(<<"e1">>)},
        notes \in {Undef, List(<<"n1", "n2">>)}}

(* The records obtained by filling one empty field of a record. *)
FilledOnce(fields) ==
    {[g \in DOMAIN fields \cup {f} |-> IF g = f THEN value ELSE fields[g]] :
        f \in {h \in {"A#", "Client Email", "DOB", "Address", "Address Line 1"} :
                  Falsy(Get(fields, h))},
        value \in {Str(" "), Str("2"), Str("null@blank")}}

(* The records obtained by adding one entry to one link list of a record. *)
LinkedOnce(fields) ==
    {[g \in DOMAIN fields \cup {f} |->
         IF g = f THEN List((IF Get(fields, f).t = "array" THEN fields[f].v ELSE <<>>)
                            \o <<"x9">>)
         ELSE fields[g]] :
        f \in {"Events", "Client Notes"}}

(* The record lists of the search: three records of distinct ids, each     *)
(* with or without one of two names, the first two with or without an A#;  *)
(* the fuzzy index returns to a record itself and the records of the pairs *)
(* in hits, in either order.                                               *)
FindInit ==
    /\ \/ \E names \in [1..3 -> {Undef, Str("ann"), Str("anne")}],
             aNumbers \in [1..2 -> {Undef, Str("1"), Str("2")}],
             hits \in SUBSET {{1, 2}, {1, 3}, {2, 3}},
             ascending \in BOOLEAN,
             otherNames \in {[match |-> FALSE, score |-> 0], [match |-> TRUE, score |-> 85]} :
            LET records == [i \in 1..3 |->
                               [id |-> "r" \o ToString(i),
                                fields |-> Present([f \in {"Client Name", "A#"} |->
                                               IF f = "Client Name" THEN names[i]
                                               ELSE IF i <= 2 THEN aNumbers[i] ELSE Undef])]]
                fuseRecords == FuseRecords(records)
                found(idx) == SelectSeq([k \in 1..Len(fuseRecords) |->
                                            IF ascending THEN k ELSE Len(fuseRecords) + 1 - k],
                                        LAMBDA k : k = idx
                                                   \/ {fuseRecords[idx], fuseRecords[k]} \in hits)
            IN pin = [call |-> "find", records |-> records,
                      search |-> [idx \in 1..Len(fuseRecords) |-> found(idx)],
                      hits |-> hits,
                      otherNames |-> otherNames]
       \/ \E before \in QualityRecords :
          \E after \in FilledOnce(before) \cup LinkedOnce(before) :
             pin = [call |-> "quality", before |-> before, after |-> after]
    /\ presult = [stage |-> "start"]
    /\ ScoreIdle /\ GroupIdle /\ FlowIdle

(* findDuplicateCandidates(records) *)
FindScan ==
    /\ presult.stage = "start"
    /\ pin.call = "find"
    /\ presult' = [stage |-> "found",
                   candidates |-> FindAllCandidates(pin.records, pin.search, pin.otherNames)]
    /\ UNCHANGED <<pin, scoreVars, groupVars, flowVars>>

(* scoreRecordQuality(record) of the record before and after the change. *)
FindQuality ==
    /\ presult.stage = "start"
    /\ pin.call = "quality"
    /\ presult' = [stage |-> "scored",
                   before |-> scoreRecordQuality(pin.before),
                   after |-> scoreRecordQuality(pin.after)]
    /\ UNCHANGED <<pin, scoreVars, groupVars, flowVars>>

FindNext == FindScan \/ FindQuality

SpecFind == FindInit /\ [][FindNext]_vars

(* The candidates of the result that hold the two records of the ids.      *)
CandidatesOfPair(idA, idB) ==
    {k \in 1..Len(presult.candidates) :
        {presult.candidates[k].survivor.record.id,
         presult.candidates[k].merged.record.id} = {idA, idB}}

SameKeyPairs ==
    {pair \in (1..Len(pin.records)) \X (1..Len(pin.records)) :
        /\ pair[1] < pair[2]
        /\ getMatchKey(pin.records[pair[1]].fields) # ""
        /\ getMatchKey(pin.records[pair[1]].fields) = getMatchKey(pin.records[pair[2]].fields)}

(* C20: once findDuplicateCandidates has returned on records of distinct   *)
(* ids, every unordered pair of distinct records that share a non-empty    *)
(* match key is in exactly one candidate, and no unordered pair of records *)
(* is in more than one candidate, whether a bucket, the fuzzy index or     *)
(* both found it.                                                          *)
Thm_C20_OneCandidatePerPair ==
    presult.stage = "found" =>
        /\ \A pair \in SameKeyPairs :
              Cardinality(CandidatesOfPair(pin.records[pair[1]].id,
                                           pin.records[pair[2]].id)) = 1
        /\ \A i, j \in 1..Len(pin.records) :
              Cardinality(CandidatesOfPair(pin.records[i].id, pin.records[j].id)) <= 1

(* A pair of one key that the fuzzy index returns as well, next to a pair  *)
(* of two names that only the fuzzy index returns, both ways round.        *)
Wit_C20_BucketAndFuzzyPair ==
    /\ presult.stage = "found"
    /\ \E pair \in SameKeyPairs : {pair[1], pair[2]} \in pin.hits
    /\ \E i, j \in 1..Len(pin.records) :
          /\ i < j /\ {i, j} \in pin.hits /\ <<i, j>> \notin SameKeyPairs
          /\ Cardinality(CandidatesOfPair(pin.records[i].id, pin.records[j].id)) = 1
    /\ Len(presult.candidates) >= 2

(* handleFieldSelection: the user picks a value for one field. *)
handleFieldSelection(resolutions, fieldName, strategy, value) ==
    [resolutions EXCEPT ![fieldName] =
        [@ EXCEPT !.strategy = strategy, !.value = value,
                  !.needsDecision = FALSE, !.include = TRUE]]

(* The value the user interface offers for the other record. *)
ValueB(resolution) ==
    IF /\ Len(resolution.mergedValues) >= 1
       /\ resolution.mergedValues[1].wrapped
       /\ Truthy(resolution.mergedValues[1].value)
    THEN resolution.mergedValues[1].value
    ELSE IF Len(resolution.allValues) >= 2 THEN resolution.allValues[2] ELSE Undef

(* applyToAllConflicts over the resolutions of one candidate. *)
ResolveAll(resolutions, preferSurvivor) ==
    [fieldName \in DOMAIN resolutions |->
        IF resolutions[fieldName].needsDecision
        THEN [resolutions[fieldName] EXCEPT
                 !.strategy = IF preferSurvivor THEN "keep_a" ELSE "keep_b",
                 !.value = IF preferSurvivor THEN resolutions[fieldName].survivorValue
                           ELSE ValueB(resolutions[fieldName]),
                 !.needsDecision = FALSE,
                 !.include = TRUE]
        ELSE resolutions[fieldName]]

(* The options the flows hand to buildMergePayload. *)
MergeOptions(candidate, notes) ==
    [confidence |-> Num(candidate.confidence), matchReasons |-> List(<<"name">>),
     performedBy |-> Str("user"), notes |-> Str(notes)]

FreshToken == "k" \o ToString(opCount)

RemoveRecords(recs, ids) == [id \in DOMAIN recs \ ids |-> recs[id]]

(* One merge as MergeReview.handleMerge and processAllMerges run it:       *)
(* build the payload from the candidate, update the survivor, delete the   *)
(* merged records one by one.  A request for a record the table does not   *)
(* hold fails and ends the run.                                            *)
RunMerge(candidate, resolutions, notes) ==
    LET payload == buildMergePayload(candidate.survivor, <<candidate.merged>>, resolutions,
                                     FlowSchema, MergeOptions(candidate, notes), FreshToken)
        sid == candidate.survivor.record.id
        mid == candidate.merged.record.id
        updated == sid \in DOMAIN store.recs
        deleted == updated /\ mid \in DOMAIN store.recs
        patched == [store.recs EXCEPT ![sid] = PatchFields(@, payload.updateFields)]
    IN [ok |-> deleted,
        run |-> <<[survivor |-> sid,
                   requests |->
                       <<[op |-> "update", id |-> sid, ok |-> updated]>>
                       \o (IF updated THEN <<[op |-> "delete", id |-> mid, ok |-> deleted]>>
                           ELSE <<>>),
                   logged |-> IF deleted THEN "success" ELSE "error"]>>,
        recs |-> IF deleted THEN RemoveRecords(patched, {mid})
                 ELSE IF updated THEN patched ELSE store.recs,
        write |-> IF updated
                  THEN <<[id |-> sid,
                          before |-> parseDedupeHistory(Get(store.recs[sid], HistoryField)),
                          after |-> parseDedupeHistory(payload.updateFields[HistoryField])]>>
                  ELSE lastWrite,
        delete |-> IF deleted
                   THEN <<[deleted |-> [id \in {mid} |-> patched[id]],
                           survivor |-> sid,
                           update |-> payload.updateFields]>>
                   ELSE lastDelete]

(* ---- the client table: scan, review merge, bulk merge, unmerge ---- *)

ClientRecord(city, history) ==
    Present([f \in {"Client Name", "City", HistoryField} |->
                CASE f = "Client Name" -> Str("ann")
                  [] f = "City" -> city
                  [] OTHER -> history])

(* ScanResults as it is mounted. *)
EmptyScan == [candidates |-> <<>>, pending |-> FALSE]

(* The application on a table of three clients of one name: S with a       *)
(* history, M1 of another city, M2 with or without a city.                 *)
FlowInit ==
    /\ \E cityM1 \in {Str("c2")}, cityM2 \in {Undef, Str("c2")},
          historyS \in {Json("array", <<OldEntry("S", "Z")>>)} :
         store = [recs |-> [id \in {"S", "M1", "M2"} |->
                               CASE id = "S" -> ClientRecord(Str("c1"), historyS)
                                 [] id = "M1" -> ClientRecord(cityM1, Undef)
                                 [] OTHER -> ClientRecord(cityM2, Undef)],
                  created |-> 0]
    /\ scanned = EmptyScan
    /\ bulk = [phase |-> "closed"]
    /\ viewer = NoFields
    /\ lastWrite = <<>>
    /\ lastDelete = <<>>
    /\ lastRun = <<>>
    /\ opCount = 0
    /\ ScoreIdle /\ GroupIdle /\ PayloadIdle

(* ScanResults.runScan in the scan view: read the table, find the          *)
(* candidates.                                                             *)
RunScan ==
    /\ bulk.phase = "closed"
    /\ scanned' = [scanned EXCEPT !.candidates = findDuplicateCandidates(store)]
    /\ viewer' = NoFields
    /\ UNCHANGED <<store, bulk, lastWrite, lastDelete, lastRun, opCount,
                   scoreVars, groupVars, payloadVars>>

(* The end of the background resync that handleBulkMergeComplete started   *)
(* in the mounted ScanResults.                                             *)
BackgroundResync ==
    /\ scanned.pending
    /\ scanned' = [candidates |-> findDuplicateCandidates(store), pending |-> FALSE]
    /\ UNCHANGED <<store, bulk, viewer, lastWrite, lastDelete, lastRun, opCount,
                   scoreVars, groupVars, payloadVars>>

(* MergeReview: the resolutions of the selected candidate, the user's pick *)
(* for every field that needs a decision, then handleMerge and the return  *)
(* to the scan view (App.handleMergeComplete, or Skip after a failure).    *)
(* The resync App starts runs in the ScanResults instance that was         *)
(* unmounted for the review; the scan view starts with no candidates.      *)
ReviewMerge ==
    /\ bulk.phase = "closed"
    /\ opCount < MaxOps
    /\ \E k \in 1..Len(scanned.candidates), preferSurvivor \in BOOLEAN :
         LET candidate == scanned.candidates[k]
             resolutions ==
                 ResolveAll(computeFieldResolutions(candidate.survivor, <<candidate.merged>>,
                                                    FlowSchema, ReviewConfig(FlowSchema)),
                            preferSurvivor)
             run == RunMerge(candidate, resolutions, "")
         IN /\ ~hasUnresolvedDecisions(resolutions)
            /\ store' = [store EXCEPT !.recs = run.recs]
            /\ lastWrite' = run.write
            /\ lastDelete' = run.delete
            /\ lastRun' = run.run
            /\ scanned' = EmptyScan
    /\ opCount' = opCount + 1
    /\ UNCHANGED <<bulk, viewer, scoreVars, groupVars, payloadVars>>

(* BulkMergeModal opened on the selected candidates: analyzeCandidates. *)
BulkOpen ==
    /\ bulk.phase = "closed"
    /\ \E selectedIds \in SUBSET (1..Len(scanned.candidates)) :
         /\ selectedIds # {}
         /\ opCount + Cardinality(selectedIds) <= MaxOps
         /\ LET selected == SelectSeq([k \in 1..Len(scanned.candidates) |-> k],
                                      LAMBDA k : k \in selectedIds)
                resolved(k) ==
                    computeFieldResolutions(scanned.candidates[k].survivor,
                                            <<scanned.candidates[k].merged>>,
                                            FlowSchema, ReviewConfig(FlowSchema))
                autoIdx == SelectSeq(selected, LAMBDA k : ~hasUnresolvedDecisions(resolved(k)))
                conflictIdx == SelectSeq(selected, LAMBDA k : hasUnresolvedDecisions(resolved(k)))
            IN bulk' = [phase |-> "summary",
                        autoMergeCandidates |->
                            [n \in 1..Len(autoIdx) |->
                                [candidate |-> scanned.candidates[autoIdx[n]],
                                 resolutions |-> resolved(autoIdx[n])]],
                        conflictCandidates |->
                            [n \in 1..Len(conflictIdx) |-> scanned.candidates[conflictIdx[n]]],
                        conflictResolutions |->
                            [n \in 1..Len(conflictIdx) |-> resolved(conflictIdx[n])],
                        candidatesToMerge |-> <<>>,
                        currentConflictIndex |-> 0,
                        skippedIds |-> {},
                        appliedToAll |-> "none",
                        attempted |-> <<>>,
                        progress |-> 0,
                        results |-> [successful |-> 0, failed |-> 0, skipped |-> 0]]
    /\ UNCHANGED <<store, scanned, viewer, lastWrite, lastDelete, lastRun, opCount,
                   scoreVars, groupVars, payloadVars>>

(* handleMergeAutoOnly; its button is rendered when there are auto-merge   *)
(* candidates.                                                             *)
BulkMergeAutoOnly ==
    /\ bulk.phase = "summary"
    /\ Len(bulk.autoMergeCandidates) > 0
    /\ bulk' = [bulk EXCEPT !.candidatesToMerge = bulk.autoMergeCandidates,
                            !.results.skipped = Len(bulk.conflictCandidates),
                            !.phase = "processing"]
    /\ UNCHANGED <<store, scanned, viewer, lastWrite, lastDelete, lastRun, opCount,
                   scoreVars, groupVars, payloadVars>>

(* handleMergeAllWithStrategy(preferSurvivor): applyToAllConflicts updates *)
(* the resolutions held in the component's state; the timer callback reads *)
(* conflictResolutions of the render in which the button was pressed.  The *)
(* button is rendered when there are conflicts; appliedToAll records which *)
(* of the two buttons it was.                                              *)
BulkMergeAllWithStrategy ==
    /\ bulk.phase = "summary"
    /\ Len(bulk.conflictCandidates) > 0
    /\ \E preferSurvivor \in BOOLEAN :
         bulk' = [bulk EXCEPT
                     !.conflictResolutions =
                         [n \in 1..Len(@) |-> ResolveAll(@[n], preferSurvivor)],
                     !.appliedToAll = IF preferSurvivor THEN "keep_a" ELSE "keep_b",
                     !.candidatesToMerge =
                         bulk.autoMergeCandidates \o
                             [n \in 1..Len(bulk.conflictCandidates) |->
                                 [candidate |-> bulk.conflictCandidates[n],
                                  resolutions |-> bulk.conflictResolutions[n]]],
                     !.phase = "processing"]
    /\ UNCHANGED <<store, scanned, viewer, lastWrite, lastDelete, lastRun, opCount,
                   scoreVars, groupVars, payloadVars>>

(* handleResolveIndividually; its button is rendered when there are        *)
(* conflicts.                                                              *)
BulkResolveIndividually ==
    /\ bulk.phase = "summary"
    /\ Len(bulk.conflictCandidates) > 0
    /\ bulk' = [bulk EXCEPT !.currentConflictIndex = 0, !.phase = "conflicts"]
    /\ UNCHANGED <<store, scanned, viewer, lastWrite, lastDelete, lastRun, opCount,
                   scoreVars, groupVars, payloadVars>>

(* The conflicts of the modal, each with the resolutions held for it, that *)
(* the handlers of the conflicts phase pass on: those at the positions     *)
(* kept, and of these the resolved ones when onlyResolved.                 *)
ConflictsToMerge(kept, onlyResolved) ==
    LET idx == SelectSeq([m \in 1..Len(bulk.conflictCandidates) |-> m],
                         LAMBDA m : /\ m \in kept
                                    /\ onlyResolved =>
                                           ~hasUnresolvedDecisions(bulk.conflictResolutions[m]))
    IN [n \in 1..Len(idx) |->
           [candidate |-> bulk.conflictCandidates[idx[n]],
            resolutions |-> bulk.conflictResolutions[idx[n]]]]

(* The A and B buttons of a field of the current conflict that needs a     *)
(* decision: handleFieldSelection.                                         *)
BulkSelectField ==
    /\ bulk.phase = "conflicts"
    /\ LET current == bulk.currentConflictIndex + 1
           currentResolutions == bulk.conflictResolutions[current]
       IN \E fieldName \in DOMAIN currentResolutions, keepA \in BOOLEAN :
            /\ currentResolutions[fieldName].needsDecision
            /\ bulk' = [bulk EXCEPT !.conflictResolutions[current] =
                           handleFieldSelection(
                               @, fieldName,
                               IF keepA THEN "keep_a" ELSE "keep_b",
                               IF keepA THEN currentResolutions[fieldName].survivorValue
                               ELSE ValueB(currentResolutions[fieldName]))]
    /\ UNCHANGED <<store, scanned, viewer, lastWrite, lastDelete, lastRun, opCount,
                   scoreVars, groupVars, payloadVars>>

(* handleNextConflict; its button is disabled while a field of the current *)
(* conflict needs a decision.                                              *)
BulkNextConflict ==
    /\ bulk.phase = "conflicts"
    /\ ~hasUnresolvedDecisions(bulk.conflictResolutions[bulk.currentConflictIndex + 1])
    /\ bulk' = IF bulk.currentConflictIndex < Len(bulk.conflictCandidates) - 1
               THEN [bulk EXCEPT !.currentConflictIndex = @ + 1]
               ELSE [bulk EXCEPT
                        !.candidatesToMerge =
                            bulk.autoMergeCandidates
                                \o ConflictsToMerge(1..Len(bulk.conflictCandidates), FALSE),
                        !.phase = "processing"]
    /\ UNCHANGED <<store, scanned, viewer, lastWrite, lastDelete, lastRun, opCount,
                   scoreVars, groupVars, payloadVars>>

(* The conflict the conflicts phase shows. *)
CurrentConflict == bulk.conflictCandidates[bulk.currentConflictIndex + 1]

(* handleSkipConflict; skippedIds records the candidates on which the      *)
(* button was pressed, which the component itself keeps only as a count.   *)
BulkSkipConflict ==
    /\ bulk.phase = "conflicts"
    /\ bulk' = IF bulk.currentConflictIndex < Len(bulk.conflictCandidates) - 1
               THEN [bulk EXCEPT !.results.skipped = @ + 1,
                                 !.skippedIds = @ \cup {CurrentConflict.id},
                                 !.currentConflictIndex = @ + 1]
               ELSE [bulk EXCEPT
                        !.results.skipped = @ + 1,
                        !.skippedIds = @ \cup {CurrentConflict.id},
                        !.candidatesToMerge =
                            bulk.autoMergeCandidates
                                \o ConflictsToMerge((1..Len(bulk.conflictCandidates))
                                                        \ {bulk.currentConflictIndex + 1},
                                                    TRUE),
                        !.phase = "processing"]
    /\ UNCHANGED <<store, scanned, viewer, lastWrite, lastDelete, lastRun, opCount,
                   scoreVars, groupVars, payloadVars>>

(* handleSkipAllRemaining; its button is rendered before the last          *)
(* conflict.                                                               *)
BulkSkipAllRemaining ==
    /\ bulk.phase = "conflicts"
    /\ bulk.currentConflictIndex < Len(bulk.conflictCandidates) - 1
    /\ bulk' = [bulk EXCEPT
                   !.results.skipped =
                       @ + (Len(bulk.conflictCandidates) - bulk.currentConflictIndex),
                   !.candidatesToMerge =
                       bulk.autoMergeCandidates
                           \o ConflictsToMerge(1..bulk.currentConflictIndex, TRUE),
                   !.phase = "processing"]
    /\ UNCHANGED <<store, scanned, viewer, lastWrite, lastDelete, lastRun, opCount,
                   scoreVars, groupVars, payloadVars>>

(* handleBulkMergeCancel: the close button of the modal, rendered before   *)
(* the processing phase.                                                   *)
BulkCancel ==
    /\ bulk.phase \in {"summary", "conflicts"}
    /\ bulk' = [phase |-> "closed"]
    /\ UNCHANGED <<store, scanned, viewer, lastWrite, lastDelete, lastRun, opCount,
                   scoreVars, groupVars, payloadVars>>

(* The list processAllMerges works through. *)
AllToMerge ==
    IF Len(bulk.candidatesToMerge) > 0 THEN bulk.candidatesToMerge
    ELSE bulk.autoMergeCandidates \o ConflictsToMerge(1..Len(bulk.conflictCandidates), TRUE)

(* An iteration of processAllMerges that stops the loop when the merge     *)
(* failed.                                                                 *)
AfterAttempt_AbortOnFailure(item, ok) ==
    [bulk EXCEPT !.progress = @ + 1,
                 !.attempted = Append(@, [id |-> item.candidate.id, ok |-> ok]),
                 !.results.successful = IF ok THEN @ + 1 ELSE @,
                 !.results.failed = IF ok THEN @ ELSE @ + 1,
                 !.phase = IF ok THEN @ ELSE "complete"]

(* An iteration of processAllMerges that counts a merge as successful      *)
(* whether or not its requests went through.                               *)
AfterAttempt_FailureCountedSuccessful(item, ok) ==
    [bulk EXCEPT !.progress = @ + 1,
                 !.attempted = Append(@, [id |-> item.candidate.id, ok |-> TRUE]),
                 !.results.successful = @ + 1]

(* The modal after one iteration of the loop of processAllMerges: the      *)
(* progress, and successful++ at the end of the try block or failed++ in   *)
(* its catch block.  successful and failed are the local counters that     *)
(* setResults stores when the loop is over.                                *)
AfterAttempt(item, ok) ==
    [bulk EXCEPT !.progress = @ + 1,
                 !.attempted = Append(@, [id |-> item.candidate.id, ok |-> ok]),
                 !.results.successful = IF ok THEN @ + 1 ELSE @,
                 !.results.failed = IF ok THEN @ ELSE @ + 1]

(* processAllMerges: one iteration of its loop, and its end once the list  *)
(* is worked through.                                                      *)
BulkProcessNext ==
    /\ bulk.phase = "processing"
    /\ IF bulk.progress < Len(AllToMerge)
       THEN \E item \in {AllToMerge[bulk.progress + 1]} :
            \E run \in {RunMerge(item.candidate, item.resolutions, "Bulk merge operation")} :
               /\ store' = [store EXCEPT !.recs = run.recs]
               /\ lastWrite' = run.write
               /\ lastDelete' = run.delete
               /\ lastRun' = run.run
               /\ bulk' = AfterAttempt(item, run.ok)
               /\ opCount' = opCount + 1
       ELSE /\ bulk' = [bulk EXCEPT !.phase = "complete"]
            /\ UNCHANGED <<store, lastWrite, lastDelete, lastRun, opCount>>
    /\ UNCHANGED <<scanned, viewer, scoreVars, groupVars, payloadVars>>

(* handleBulkMergeComplete: close the modal, start a background resync. *)
BulkClose ==
    /\ bulk.phase = "complete"
    /\ bulk' = [phase |-> "closed"]
    /\ scanned' = [scanned EXCEPT !.pending = TRUE]
    /\ UNCHANGED <<store, viewer, lastWrite, lastDelete, lastRun, opCount,
                   scoreVars, groupVars, payloadVars>>

(* The history view is opened; HistoryViewer on mount loads the records    *)
(* whose history field is filled and parses to at least one entry, with    *)
(* the fields it asks the table for.                                       *)
ViewerLoad ==
    /\ bulk.phase = "closed"
    /\ LET ViewerFields ==
               {"Client Name", "PPID", HistoryField, "First Name", "Family Name"}
           withHistory ==
               {id \in DOMAIN store.recs :
                   /\ HistoryField \in DOMAIN store.recs[id]
                   /\ Len(parseDedupeHistory(store.recs[id][HistoryField])) > 0}
       IN viewer' = [id \in withHistory |->
                        [id |-> id,
                         fields |-> [f \in DOMAIN store.recs[id] \cap ViewerFields |->
                                        store.recs[id][f]]]]
    /\ scanned' = EmptyScan
    /\ UNCHANGED <<store, bulk, lastWrite, lastDelete, lastRun, opCount,
                   scoreVars, groupVars, payloadVars>>

RECURSIVE CreateRecords(_, _, _)
CreateRecords(st, recordsToCreate, unmergeEntry) ==
    IF recordsToCreate = <<>> THEN st
    ELSE LET toCreate == Head(recordsToCreate)
             originalHistory == parseDedupeHistory(Get(toCreate.fields, HistoryField))
             fields == [f \in DOMAIN toCreate.fields \cup {HistoryField} |->
                           IF f = HistoryField
                           THEN StringifyHistory(Append(originalHistory, unmergeEntry))
                           ELSE toCreate.fields[f]]
             newId == "N" \o ToString(st.created + 1)
         IN CreateRecords([recs |-> [id \in DOMAIN st.recs \cup {newId} |->
                                        IF id = newId THEN PatchFields(NoFields, fields)
                                        ELSE st.recs[id]],
                           created |-> st.created + 1],
                          Tail(recordsToCreate), unmergeEntry)

(* HistoryViewer offers the unmerge of the latest event of the selected    *)
(* record when it is a merge; UnmergeModal.handleUnmerge builds the        *)
(* payload from the record the viewer holds, creates the restored records, *)
(* and updates the survivor's history.  HistoryViewer keeps the list it    *)
(* loaded.                                                                 *)
Unmerge ==
    /\ bulk.phase = "closed"
    /\ opCount < MaxOps
    /\ \E rid \in DOMAIN viewer :
         LET record == viewer[rid]
             history == parseDedupeHistory(Get(record.fields, HistoryField))
             event == history[Len(history)]
             payload == buildUnmergePayload(record, event.merge_id, FlowSchema, FreshToken)
             created == CreateRecords(store, payload.recordsToCreate, payload.unmergeHistoryEntry)
             updated == rid \in DOMAIN store.recs
         IN /\ Len(history) > 0
            /\ {"action", "merge_id"} \subseteq DOMAIN event
            /\ event.action = "merge"
            /\ ~payload.threw
            /\ store' = IF updated
                        THEN [created EXCEPT !.recs[rid] = PatchFields(@, payload.survivorUpdates)]
                        ELSE created
            /\ lastWrite' =
                   IF updated
                   THEN <<[id |-> rid,
                           before |-> parseDedupeHistory(Get(store.recs[rid], HistoryField)),
                           after |-> parseDedupeHistory(payload.survivorUpdates[HistoryField])]>>
                   ELSE lastWrite
    /\ opCount' = opCount + 1
    /\ UNCHANGED <<scanned, bulk, viewer, lastDelete, lastRun, scoreVars, groupVars,
                   payloadVars>>

FlowNext ==
    \/ RunScan
    \/ BackgroundResync
    \/ ReviewMerge
    \/ BulkOpen
    \/ BulkMergeAutoOnly
    \/ BulkMergeAllWithStrategy
    \/ BulkResolveIndividually
    \/ BulkSelectField
    \/ BulkNextConflict
    \/ BulkSkipConflict
    \/ BulkSkipAllRemaining
    \/ BulkCancel
    \/ BulkProcessNext
    \/ BulkClose
    \/ ViewerLoad
    \/ Unmerge

SpecFlow == FlowInit /\ [][FlowNext]_vars

(* One session of the bulk merge modal: a scan, the modal from its opening *)
(* to the end of processAllMerges.  processAllMerges runs in an effect of  *)
(* the modal once the phase is 'processing'; every request it awaits       *)
(* either returns or throws (AirtableClient.request gives up after         *)
(* MAX_RETRIES), so an iteration that can run does run.                    *)
BulkNext ==
    \/ RunScan
    \/ BulkOpen
    \/ BulkMergeAutoOnly
    \/ BulkMergeAllWithStrategy
    \/ BulkResolveIndividually
    \/ BulkSelectField
    \/ BulkNextConflict
    \/ BulkSkipConflict
    \/ BulkSkipAllRemaining
    \/ BulkCancel
    \/ BulkProcessNext

SpecBulk == FlowInit /\ [][BulkNext]_vars /\ WF_vars(BulkProcessNext)

(* The candidates of the modal: those it was opened on. *)
Submitted == Len(bulk.autoMergeCandidates) + Len(bulk.conflictCandidates)

(* The attempts made so far are the first candidates of the list being     *)
(* processed, in its order, and each is counted as successful or failed.   *)
AttemptsFollowList ==
    bulk.phase \in {"processing", "complete"} =>
        /\ Len(bulk.attempted) = bulk.progress
        /\ bulk.progress <= Len(AllToMerge)
        /\ \A i \in 1..Len(bulk.attempted) :
              bulk.attempted[i].id = AllToMerge[i].candidate.id
        /\ \A i, j \in 1..Len(AllToMerge) :
              AllToMerge[i].candidate.id = AllToMerge[j].candidate.id => i = j
        /\ bulk.results.successful
              = Cardinality({i \in 1..Len(bulk.attempted) : bulk.attempted[i].ok})
        /\ bulk.results.failed
              = Cardinality({i \in 1..Len(bulk.attempted) : ~bulk.attempted[i].ok})
        /\ bulk.phase = "complete" => Len(bulk.attempted) = Len(AllToMerge)

(* C11: in a bulk merge a failure on one candidate never stops the batch:  *)
(* every candidate of the list being processed is attempted exactly once,  *)
(* in list order, one at a time, and once all have been attempted the      *)
(* batch reaches the 'complete' phase with successful + failed equal to    *)
(* the number of candidates attempted.                                     *)
Thm_C11_BatchRunsToCompletion ==
    /\ []AttemptsFollowList
    /\ [][bulk.phase = "processing" /\ bulk' # bulk
             => \/ bulk'.phase = "processing"
                   /\ Len(bulk'.attempted) = Len(bulk.attempted) + 1
                \/ bulk'.phase = "complete" /\ bulk'.attempted = bulk.attempted]_vars
    /\ (bulk.phase = "processing") ~> (bulk.phase = "complete")

(* A batch is complete in which a candidate failed and a later one was     *)
(* attempted all the same.                                                 *)
Wit_C11_FailureThenNextAttempt ==
    /\ bulk.phase = "complete"
    /\ \E i, j \in 1..Len(bulk.attempted) :
         i < j /\ ~bulk.attempted[i].ok /\ bulk.attempted[j].ok

(* C12: when a bulk merge completes, its summary accounts for every        *)
(* candidate exactly once: successful + failed + skipped equals the number *)
(* of candidates submitted to the bulk merge, for every path through the   *)
(* modal.                                                                  *)
Cex_C12_SummaryAccountsForAll ==
    bulk.phase = "complete" =>
        bulk.results.successful + bulk.results.failed + bulk.results.skipped = Submitted

(* C25: a conflict candidate on which the user pressed 'Skip This' is      *)
(* never merged: no merge of it is attempted, hence no survivor update and *)
(* no deletion issued for it, whatever is done with the later conflicts.   *)
Cex_C25_SkippedNeverMerged ==
    bulk.phase \in {"processing", "complete"} =>
        \A k \in 1..Len(bulk.attempted) : bulk.attempted[k].id \notin bulk.skippedIds

(* C26: after 'Keep Survivor Values (A)' or 'Keep Merged Values (B)' for   *)
(* all conflicts, every conflict candidate is in the list to merge with    *)
(* the resolutions the batch update produced: no field needs a decision    *)
(* and each formerly conflicting field carries the chosen record's value.  *)
Cex_C26_BatchResolutionsUsed ==
    (bulk.phase \in {"processing", "complete"} /\ bulk.appliedToAll # "none") =>
        \A n \in 1..Len(bulk.conflictCandidates) :
            \E k \in 1..Len(AllToMerge) :
                /\ AllToMerge[k].candidate = bulk.conflictCandidates[n]
                /\ ~hasUnresolvedDecisions(AllToMerge[k].resolutions)
                /\ AllToMerge[k].resolutions = bulk.conflictResolutions[n]

Cex_C2_HistoryAppendOnly ==
    lastWrite # <<>> =>
        LET w == lastWrite[1]
        IN /\ Len(w.after) = Len(w.before) + 1
           /\ \A i \in 1..Len(w.before) : w.after[i] = w.before[i]

(* The records restored by an unmerge of the merge: those whose history    *)
(* holds an unmerge entry of it made on another record, the survivor.      *)
RestoredCopies(mergeId) ==
    {id \in DOMAIN store.recs :
        LET history == parseDedupeHistory(Get(store.recs[id], HistoryField))
        IN \E k \in 1..Len(history) :
              /\ {"action", "original_merge_id", "survivor_record_id"} \subseteq DOMAIN history[k]
              /\ history[k].action = "unmerge"
              /\ history[k].original_merge_id = mergeId
              /\ history[k].survivor_record_id # id}

UnmergedIds ==
    UNION {LET history == parseDedupeHistory(Get(store.recs[id], HistoryField))
           IN {history[k].original_merge_id :
                  k \in {h \in 1..Len(history) : "original_merge_id" \in DOMAIN history[h]}} :
           id \in DOMAIN store.recs}

(* C27: a merge event is unmerged at most once, so the record it subsumed  *)
(* is recreated at most once: the table never holds two records restored   *)
(* from one merge.                                                         *)
Cex_C27_UnmergedAtMostOnce ==
    \A mergeId \in UnmergedIds : Cardinality(RestoredCopies(mergeId)) <= 1

(***************************************************************************)
(* caseMasterMerge.js and the CaseMasterDedup component: duplicates of the *)
(* Case Master View table, their resolutions, the merge and the bulk force *)
(* merge.  A record of this table is [id, fields]; its texts are Txt       *)
(* values.  The schema lists the fields in the order of the table.         *)
(***************************************************************************)
CASE_MASTER_MERGE_CONFIG ==
    [appendFields |-> {"Matter_Flatpack"},
     appendDelimiter |-> <<"\n", "-", "-", "-", "\n">>,
     excludeFields |-> {"Created", "Created By", "Last Modified", "Last Modified By", "Record ID"},
     linkFieldTypes |-> {"multipleRecordLinks"}]

CaseSchema ==
    <<[name |-> "Title", type |-> "singleLineText", isComputed |-> FALSE],
      [name |-> "Matter_Flatpack", type |-> "multilineText", isComputed |-> FALSE],
      [name |-> "Stage", type |-> "singleSelect", isComputed |-> FALSE],
      [name |-> "Opened", type |-> "formula", isComputed |-> TRUE]>>

(* detectEditableFields: the parts of its result the merge reads. *)
detectEditableFields(schema) ==
    LET editable == SelectSeq(schema, LAMBDA fi : ~fi.isComputed)
        notText == {"multipleRecordLinks", "number", "currency", "percent", "date", "dateTime",
                    "checkbox", "singleSelect", "multipleSelects"}
    IN [allFields |-> [n \in {schema[i].name : i \in 1..Len(schema)} |->
                          schema[CHOOSE i \in 1..Len(schema) : schema[i].name = n]],
        editable |-> [i \in 1..Len(editable) |-> editable[i].name],
        textFields |->
            LET text == SelectSeq(editable, LAMBDA fi : fi.type \notin notText)
            IN [i \in 1..Len(text) |-> text[i].name]]

(* String(val || '') *)
StringChars(value) ==
    IF Falsy(value) THEN <<>>
    ELSE IF value.t = "text" THEN value.v
    ELSE <<value.s>>

appendValues(val1, val2, delimiter) ==
    LET str1 == Trim(StringChars(val1))
        str2 == Trim(StringChars(val2))
    IN IF str1 = <<>> /\ str2 = <<>> THEN <<>>
       ELSE IF str1 = <<>> THEN str2
       ELSE IF str2 = <<>> THEN str1
       ELSE IF str1 = str2 THEN str1
       ELSE IF Includes(str1, str2) THEN str1
       ELSE IF Includes(str2, str1) THEN str2
       ELSE str1 \o delimiter \o str2

RECURSIVE AppendAll(_, _, _)
AppendAll(appendedValue, values, delimiter) ==
    IF values = <<>> THEN appendedValue
    ELSE AppendAll(appendValues(Txt(appendedValue), Head(values), delimiter),
                   Tail(values), delimiter)

(* scoreRecordCompleteness, in hundredths of a point. *)
scoreRecordCompleteness(record) ==
    LET points(value) ==
            IF isEmpty(value) THEN 0
            ELSE IF value.t = "array" THEN Len(value.v) * 200
            ELSE IF value.t = "text" THEN Min(Len(value.v), 500)
            ELSE 100
        RECURSIVE Sum(_)
        Sum(names) == IF names = {} THEN 0
                      ELSE LET n == CHOOSE x \in names : TRUE
                           IN points(record.fields[n]) + Sum(names \ {n})
    IN Sum(DOMAIN record.fields)

RECURSIVE JoinChars(_, _)
JoinChars(parts, sep) ==
    IF parts = <<>> THEN <<>>
    ELSE IF Len(parts) = 1 THEN parts[1]
    ELSE parts[1] \o <<sep>> \o JoinChars(Tail(parts), sep)

(* The composite key of a record; <<>> when every match field is empty. *)
CaseMatchKey(record, matchFields) ==
    LET part(field) ==
            IF isEmpty(Get(record.fields, field)) THEN <<>>
            ELSE Trim(ToLowerCase(StringChars(record.fields[field])))
        keyParts == SelectSeq([i \in 1..Len(matchFields) |-> part(matchFields[i])],
                              LAMBDA p : p # <<>>)
    IN JoinChars(keyParts, "|")

findCaseMasterDuplicates(records, matchFields) ==
    LET keyed == SelectSeq(records, LAMBDA r : CaseMatchKey(r, matchFields) # <<>>)
        firstOfKey == SelectSeq([i \in 1..Len(keyed) |-> i],
                                LAMBDA i : \A j \in 1..(i - 1) :
                                    CaseMatchKey(keyed[j], matchFields)
                                        # CaseMatchKey(keyed[i], matchFields))
        groupOf(i) == SelectSeq(keyed, LAMBDA r : CaseMatchKey(r, matchFields)
                                                     = CaseMatchKey(keyed[i], matchFields))
        large == SelectSeq(firstOfKey, LAMBDA i : Len(groupOf(i)) >= 2)
        sorted(i) ==
            LET scoredRecords == [k \in 1..Len(groupOf(i)) |->
                                     [id |-> groupOf(i)[k].id, fields |-> groupOf(i)[k].fields,
                                      score |-> scoreRecordCompleteness(groupOf(i)[k])]]
                inOrder == SortByScoreDesc(scoredRecords)
            IN [k \in 1..Len(inOrder) |-> [id |-> inOrder[k].id, fields |-> inOrder[k].fields]]
    IN [n \in 1..Len(large) |->
           [id |-> "dup_" \o ToString(n - 1),
            matchKey |-> CaseMatchKey(keyed[large[n]], matchFields),
            records |-> sorted(large[n]),
            survivor |-> sorted(large[n])[1],
            toMerge |-> Tail(sorted(large[n]))]]

(* A resolution of the Case Master merge: the properties the payload       *)
(* builder reads (the others are shown to the user only).                  *)
CaseResolution(strategy, value, include) ==
    [strategy |-> strategy, value |-> value, include |-> include]

(* The first occurrences of the elements of a sequence, in order. *)
RECURSIVE Unique(_, _)
Unique(values, seen) ==
    IF values = <<>> THEN <<>>
    ELSE IF Head(values) \in seen THEN Unique(Tail(values), seen)
    ELSE <<Head(values)>> \o Unique(Tail(values), seen \cup {Head(values)})

(* uniqueStrings.reduce((a, b) => a.length >= b.length ? a : b, '') *)
RECURSIVE Longest(_, _)
Longest(a, strings) ==
    IF strings = <<>> THEN a
    ELSE Longest(IF Len(a) >= Len(Head(strings)) THEN a ELSE Head(strings), Tail(strings))

CaseAllFields(survivor, toMerge) ==
    DOMAIN survivor.fields \cup UNION {DOMAIN toMerge[i].fields : i \in 1..Len(toMerge)}

(* The branches computeCaseMasterResolutions and                           *)
(* computeForceMergeResolutions share: a field missing from the schema, a  *)
(* computed field, an excluded field, an append field, a link field.       *)
CaseCommonResolution(fieldName, survivor, toMerge, schema, config) ==
    LET editableFields == detectEditableFields(schema)
        survivorValue == Get(survivor.fields, fieldName)
        allValues == <<survivorValue>> \o
                         [i \in 1..Len(toMerge) |-> Get(toMerge[i].fields, fieldName)]
        nonEmptyValues == SelectSeq(allValues, LAMBDA v : ~isEmpty(v))
    IN
    IF fieldName \notin DOMAIN editableFields.allFields
    THEN <<CaseResolution("skip", Undef, FALSE)>>
    ELSE IF editableFields.allFields[fieldName].isComputed
    THEN <<CaseResolution("computed", Undef, FALSE)>>
    ELSE IF fieldName \in config.excludeFields
    THEN <<CaseResolution("excluded", Undef, FALSE)>>
    ELSE IF fieldName \in config.appendFields
    THEN LET appendedValue == AppendAll(<<>>, nonEmptyValues, config.appendDelimiter)
         IN <<CaseResolution("append",
                             IF appendedValue = <<>> THEN Null ELSE Txt(appendedValue),
                             appendedValue # <<>>)>>
    ELSE IF editableFields.allFields[fieldName].type = "multipleRecordLinks"
    THEN LET merged == MergeLinks(IF survivorValue.t = "array" THEN survivorValue.v ELSE <<>>,
                                  [i \in 1..Len(toMerge) |-> [record |-> toMerge[i]]],
                                  fieldName)
         IN <<CaseResolution("merge_links",
                             IF Len(merged) > 0 THEN List(merged) ELSE Null,
                             Len(merged) > 0)>>
    ELSE <<>>

CaseResolveField(fieldName, survivor, toMerge, schema, config) ==
    LET common == CaseCommonResolution(fieldName, survivor, toMerge, schema, config)
        survivorValue == Get(survivor.fields, fieldName)
        allValues == <<survivorValue>> \o
                         [i \in 1..Len(toMerge) |-> Get(toMerge[i].fields, fieldName)]
        nonEmptyValues == SelectSeq(allValues, LAMBDA v : ~isEmpty(v))
    IN IF common # <<>> THEN common[1]
       ELSE IF nonEmptyValues = <<>> THEN CaseResolution("empty", Null, FALSE)
       ELSE IF Cardinality(Range(nonEmptyValues)) = 1
       THEN CaseResolution("identical", nonEmptyValues[1], TRUE)
       ELSE IF ~isEmpty(survivorValue)
       THEN CaseResolution("keep_survivor", survivorValue, TRUE)
       ELSE CaseResolution("fill_empty", nonEmptyValues[1], TRUE)

computeCaseMasterResolutions(survivor, toMerge, schema, config) ==
    [fieldName \in CaseAllFields(survivor, toMerge) |->
        CaseResolveField(fieldName, survivor, toMerge, schema, config)]

ForceResolveField(fieldName, survivor, toMerge, schema, config) ==
    LET common == CaseCommonResolution(fieldName, survivor, toMerge, schema, config)
        survivorValue == Get(survivor.fields, fieldName)
        allValues == <<survivorValue>> \o
                         [i \in 1..Len(toMerge) |-> Get(toMerge[i].fields, fieldName)]
        nonEmptyValues == SelectSeq(allValues, LAMBDA v : ~isEmpty(v))
        uniqueStrings == Unique([i \in 1..Len(nonEmptyValues) |->
                                    Trim(StringChars(nonEmptyValues[i]))], {})
    IN IF common # <<>> THEN common[1]
       ELSE IF detectEditableFields(schema).allFields[fieldName].type
                    \in {"multilineText", "richText", "singleLineText"}
       THEN IF nonEmptyValues = <<>> THEN CaseResolution("empty", Null, FALSE)
            ELSE IF Len(uniqueStrings) = 1
            THEN CaseResolution("identical", Txt(uniqueStrings[1]), TRUE)
            ELSE CaseResolution("keep_longest", Txt(Longest(<<>>, uniqueStrings)), TRUE)
       ELSE IF nonEmptyValues = <<>> THEN CaseResolution("empty", Null, FALSE)
       ELSE CaseResolution("keep_first", nonEmptyValues[1], TRUE)

computeForceMergeResolutions(survivor, toMerge, schema, config) ==
    [fieldName \in CaseAllFields(survivor, toMerge) |->
        ForceResolveField(fieldName, survivor, toMerge, schema, config)]

buildCaseMasterMergePayload(survivor, toMerge, resolutions, schema, options, token) ==
    LET mergeId == "cm_mrg_" \o token
        changed == {fieldName \in DOMAIN resolutions :
                       /\ resolutions[fieldName].include
                       /\ resolutions[fieldName].strategy \notin {"computed", "excluded", "skip"}
                       /\ Get(survivor.fields, fieldName) # resolutions[fieldName].value}
        historyEntry ==
            [merge_id |-> mergeId,
             action |-> "case_master_merge",
             forceMode |-> options.forceMode,
             survivor_record_id |-> survivor.id,
             survivor_snapshot |-> survivor.fields,
             merged_records |->
                 [i \in 1..Len(toMerge) |->
                     [original_record_id |-> toMerge[i].id,
                      field_snapshot |-> toMerge[i].fields]],
             field_resolutions |-> resolutions,
             performed_by |-> Str("user"),
             notes |-> Str("")]
    IN [mergeId |-> mergeId,
        historyEntry |-> historyEntry,
        updateFields |-> [fieldName \in changed |-> resolutions[fieldName].value],
        recordsToDelete |-> [i \in 1..Len(toMerge) |-> toMerge[i].id],
        survivorId |-> survivor.id]

(* One group merged as executeMerge and bulkForceMerge do it: update the   *)
(* survivor when updateFields is not empty, then deleteRecords.  A request *)
(* that names a record the table does not hold fails and ends the merge.   *)
RunCaseMerge(st, group, resolutions, forceMode, token, previousDelete) ==
    LET payload == buildCaseMasterMergePayload(group.survivor, group.toMerge, resolutions,
                                               CaseSchema, [forceMode |-> forceMode], token)
        toUpdate == DOMAIN payload.updateFields # {}
        updated == ~toUpdate \/ payload.survivorId \in DOMAIN st.recs
        patched == IF toUpdate /\ updated
                   THEN [st.recs EXCEPT ![payload.survivorId] =
                            PatchFields(@, payload.updateFields)]
                   ELSE st.recs
        ids == Range(payload.recordsToDelete)
        deleted == updated /\ ids # {} /\ ids \subseteq DOMAIN st.recs
    IN [ok |-> updated /\ (ids = {} \/ deleted),
        store |-> [st EXCEPT !.recs = IF deleted THEN RemoveRecords(patched, ids) ELSE patched],
        delete |-> IF deleted
                   THEN <<[deleted |-> [id \in ids |-> patched[id]],
                           survivor |-> payload.survivorId,
                           update |-> IF toUpdate THEN payload.updateFields ELSE NoFields]>>
                   ELSE previousDelete]

(* ---- the Case Master View table: scan, merge, bulk force merge ---- *)

CaseFields(title, flatpack, stage) ==
    Present([f \in {"Title", "Matter_Flatpack", "Stage", "Opened"} |->
                CASE f = "Title" -> title
                  [] f = "Matter_Flatpack" -> flatpack
                  [] f = "Stage" -> stage
                  [] OTHER -> Txt(<<"2", "0", "2", "4">>)])

CaseInit ==
    /\ \E title2 \in {Txt(<<"a">>), Txt(<<"A", " ">>), Undef},
          title3 \in {Txt(<<"a">>), Txt(<<"b">>)},
          flatpack2 \in {Undef, Txt(<<"x", "y">>), Txt(<<"y">>), Txt(<<"a">>)},
          stage1 \in {Undef, Txt(<<"s">>)}, stage2 \in {Undef, Txt(<<"t">>)} :
         store = [recs |-> [id \in {"K1", "K2", "K3"} |->
                               CASE id = "K1" -> CaseFields(Txt(<<"a">>), Txt(<<"x">>), stage1)
                                 [] id = "K2" -> CaseFields(title2, flatpack2, stage2)
                                 [] OTHER -> CaseFields(title3, Undef, Undef)],
                  created |-> 0]
    /\ scanned = [groups |-> <<>>, records |-> <<>>, requests |-> 0, logged |-> "none",
                  matchFields |-> <<>>]
    /\ lastDelete = <<>>
    /\ opCount = 0
    /\ bulk = Idle /\ viewer = Idle /\ lastWrite = Idle /\ lastRun = Idle
    /\ ScoreIdle /\ GroupIdle /\ PayloadIdle

CaseRecords(st) ==
    LET order == SelectSeq(<<"K1", "K2", "K3">>, LAMBDA id : id \in DOMAIN st.recs)
    IN [i \in 1..Len(order) |-> [id |-> order[i], fields |-> st.recs[order[i]]]]

(* CaseMasterDedup.runScan with the match fields the user ticked (the      *)
(* first text fields of the schema by default): the groups are cleared,    *)
(* the records are fetched and stored, and then, if a match field is       *)
(* ticked, the duplicates are looked for.  scanned.records is the list     *)
(* setRecords stored, scanned.requests the number of getAllRecords calls   *)
(* of the last scan, scanned.logged the kind of its last log line,         *)
(* scanned.matchFields the fields ticked for it.                           *)
CaseRunScan ==
    /\ \E matchFields \in {<<>>, <<"Title">>, <<"Title", "Matter_Flatpack">>} :
         scanned' = [groups |-> IF matchFields = <<>> THEN <<>>
                                ELSE findCaseMasterDuplicates(CaseRecords(store), matchFields),
                     records |-> CaseRecords(store),
                     requests |-> 1,
                     logged |-> IF matchFields = <<>> THEN "warning" ELSE "success",
                     matchFields |-> matchFields]
    /\ UNCHANGED <<store, bulk, viewer, lastWrite, lastDelete, lastRun, opCount,
                   scoreVars, groupVars, payloadVars>>

(* selectGroup in either mode, then executeMerge: the merged group leaves  *)
(* the list when the merge went through.                                   *)
CaseExecuteMerge ==
    /\ opCount < MaxOps
    /\ \E g \in 1..Len(scanned.groups), forceMode \in BOOLEAN :
         LET selectedGroup == scanned.groups[g]
             resolutions ==
                 IF forceMode
                 THEN computeForceMergeResolutions(selectedGroup.survivor, selectedGroup.toMerge,
                                                   CaseSchema, CASE_MASTER_MERGE_CONFIG)
                 ELSE computeCaseMasterResolutions(selectedGroup.survivor, selectedGroup.toMerge,
                                                   CaseSchema, CASE_MASTER_MERGE_CONFIG)
             run == RunCaseMerge(store, selectedGroup, resolutions, forceMode,
                                 FreshToken, lastDelete)
         IN /\ store' = run.store
            /\ lastDelete' = run.delete
            /\ scanned' = IF run.ok
                          THEN [scanned EXCEPT
                                   !.groups = SelectSeq(@, LAMBDA x : x.id # selectedGroup.id)]
                          ELSE scanned
    /\ opCount' = opCount + 1
    /\ UNCHANGED <<bulk, viewer, lastWrite, lastRun, scoreVars, groupVars, payloadVars>>

RECURSIVE ForceMergeAll(_, _, _)
ForceMergeAll(state, groups, n) ==
    IF groups = <<>> THEN state
    ELSE LET group == Head(groups)
             run == RunCaseMerge(state.store, group,
                                 computeForceMergeResolutions(group.survivor, group.toMerge,
                                                              CaseSchema, CASE_MASTER_MERGE_CONFIG),
                                 TRUE, FreshToken \o "_" \o ToString(n), state.delete)
         IN ForceMergeAll([store |-> run.store, delete |-> run.delete], Tail(groups), n + 1)

(* bulkForceMerge: every group of the list in turn, then the list is       *)
(* cleared.                                                                *)
CaseBulkForceMerge ==
    /\ opCount < MaxOps
    /\ Len(scanned.groups) > 0
    /\ LET done == ForceMergeAll([store |-> store, delete |-> lastDelete], scanned.groups, 1)
       IN /\ store' = done.store
          /\ lastDelete' = done.delete
    /\ scanned' = [scanned EXCEPT !.groups = <<>>]
    /\ opCount' = opCount + 1
    /\ UNCHANGED <<bulk, viewer, lastWrite, lastRun, scoreVars, groupVars, payloadVars>>

CaseNext == CaseRunScan \/ CaseExecuteMerge \/ CaseBulkForceMerge

SpecCase == CaseInit /\ [][CaseNext]_vars

(* The value a match field of a record is compared by: trimmed, in lower   *)
(* case, an empty value as the empty string.                               *)
MatchValue(record, field) ==
    IF isEmpty(Get(record.fields, field)) THEN <<>>
    ELSE Trim(ToLowerCase(StringChars(record.fields[field])))

(* C30: any two records of one duplicate group of findCaseMasterDuplicates *)
(* have equal values, trimmed and compared case-insensitively, in every    *)
(* configured match field, and the survivor of every group has a           *)
(* completeness score greater than or equal to that of each record of its  *)
(* toMerge list.                                                           *)
Cex_C30_GroupsAgreeOnMatchFields ==
    scanned.logged = "success" =>
        \A g \in 1..Len(scanned.groups) :
            LET group == scanned.groups[g]
            IN /\ \A i, j \in 1..Len(group.records) :
                      \A f \in 1..Len(scanned.matchFields) :
                          MatchValue(group.records[i], scanned.matchFields[f])
                              = MatchValue(group.records[j], scanned.matchFields[f])
               /\ \A k \in 1..Len(group.toMerge) :
                      scoreRecordCompleteness(group.survivor)
                          >= scoreRecordCompleteness(group.toMerge[k])

Cex_C10_DeletedRecordsInHistory ==
    lastDelete # <<>> =>
        LET d == lastDelete[1]
            written == parseDedupeHistory(Get(d.update, HistoryField))
        IN /\ Len(written) > 0
           /\ "merged_records" \in DOMAIN written[Len(written)]
           /\ \A id \in DOMAIN d.deleted :
                  \E i \in 1..Len(written[Len(written)].merged_records) :
                      /\ written[Len(written)].merged_records[i].original_record_id = id
                      /\ written[Len(written)].merged_records[i].field_snapshot = d.deleted[id]

(* C23: a record obtained from another by filling a field that was empty   *)
(* or by adding an entry to a link list never has a lower quality score.   *)
Thm_C23_QualityMonotonic ==
    presult.stage = "scored" => presult.after >= presult.before

(* One more event raises the score by 50; a null@blank email filled into   *)
(* the empty field leaves it as it was.                                    *)
Wit_C23_MoreLinksScoreHigher ==
    /\ presult.stage = "scored"
    /\ Get(pin.before, "Events") = List(<<"e1">>)
    /\ Get(pin.after, "Events") = List(<<"e1", "x9">>)
    /\ presult.after = presult.before + 50

(***************************************************************************)
(* matching.js, the name functions.  A name is a sequence of characters of *)
(* NameChars, listed in the order of their code units: a space, the comma  *)
(* and the full stop of the punctuation class, one capital and the letters *)
(* that spell the honorifics 'ms' and 'miss' and the suffixes 'i', 'ii',   *)
(* 'iii'.  No character of it carries an accent, so removeAccents returns  *)
(* its argument.                                                           *)
(***************************************************************************)
NameChars == <<" ", ",", ".", "A", "a", "i", "m", "s">>

MaxNameLen == 4

CharCode(c) == CHOOSE k \in 1..Len(NameChars) : NameChars[k] = c

(* The strings of at most n characters. *)
RECURSIVE NamesUpTo(_)
NamesUpTo(n) ==
    IF n = 0 THEN {<<>>}
    ELSE LET shorter == NamesUpTo(n - 1)
         IN shorter \cup {Append(s, NameChars[k]) : s \in shorter, k \in 1..Len(NameChars)}

(* String.prototype.split on one character: the pieces between its        *)
(* occurrences, the empty ones too.                                        *)
RECURSIVE SplitOn(_, _, _)
SplitOn(s, sep, piece) ==
    IF s = <<>> THEN <<piece>>
    ELSE IF Head(s) = sep THEN <<piece>> \o SplitOn(Tail(s), sep, <<>>)
    ELSE SplitOn(Tail(s), sep, Append(piece, Head(s)))

(* split(/\s+/) and split(/[\s,]+/).filter(p => p.length > 0) of a string  *)
(* whose only separators are single spaces.                                *)
WordsOf(s) == SelectSeq(SplitOn(s, " ", <<>>), LAMBDA piece : piece # <<>>)

(* Array.prototype.join(' ') *)
RECURSIVE JoinWords(_)
JoinWords(words) ==
    IF words = <<>> THEN <<>>
    ELSE IF Len(words) = 1 THEN words[1]
    ELSE words[1] \o <<" ">> \o JoinWords(Tail(words))

(* a < b as Array.prototype.sort compares two strings, code unit by code   *)
(* unit.                                                                   *)
RECURSIVE StringLess(_, _)
StringLess(a, b) ==
    IF b = <<>> THEN FALSE
    ELSE IF a = <<>> THEN TRUE
    ELSE IF Head(a) # Head(b) THEN CharCode(Head(a)) < CharCode(Head(b))
    ELSE StringLess(Tail(a), Tail(b))

(* parts.slice().sort() *)
RECURSIVE SortStrings(_)
SortStrings(parts) ==
    IF parts = <<>> THEN <<>>
    ELSE LET last == parts[Len(parts)]
             sorted == SortStrings(SubSeq(parts, 1, Len(parts) - 1))
             n == Cardinality({k \in 1..Len(sorted) :
                                  \A h \in 1..k : ~StringLess(last, sorted[h])})
         IN SubSeq(sorted, 1, n) \o <<last>> \o SubSeq(sorted, n + 1, Len(sorted))

(* HONORIFICS and SUFFIXES, the entries the characters spell, in the order *)
(* of the lists.  An entry with a full stop matches nothing, the full      *)
(* stops of the name being replaced before the lists are applied.          *)
HONORIFICS == << <<"m", "s">>, <<"m", "i", "s", "s">> >>
SUFFIXES == << <<"i">>, <<"i", "i">>, <<"i", "i", "i">> >>

(* Lines 679-688: lowercase, trim, punctuation to spaces, runs of spaces   *)
(* to one space, trim; the words of the result.                            *)
CleanWords(fullName) ==
    WordsOf([k \in 1..Len(fullName) |->
                IF fullName[k] \in {",", "."} THEN " " ELSE LowerChar(fullName[k])])

(* Lines 693-709: name.replace(/\bentry\b/gi, ' ') for each entry of the   *)
(* list, on a name of words between single spaces.                         *)
RECURSIVE StripWords(_, _)
StripWords(words, entries) ==
    IF entries = <<>> THEN words
    ELSE StripWords(SelectSeq(words, LAMBDA w : w # Head(entries)), Tail(entries))

(* normalizeName without the 'Last, First' branch. *)
NameParts_NoCommaFormat(fullName) ==
    StripWords(StripWords(CleanWords(fullName), HONORIFICS), SUFFIXES)

(* Lines 711-723: the parts of the name. *)
NameParts(fullName) ==
    LET parts == StripWords(StripWords(CleanWords(fullName), HONORIFICS), SUFFIXES)
        commaParts == LET pieces == SplitOn(fullName, ",", <<>>)
                      IN [k \in 1..Len(pieces) |-> Trim(pieces[k])]
    IN IF "," \in Range(fullName) /\ Len(commaParts) = 2
       THEN LET lastName == Trim(ToLowerCase(commaParts[1]))
                trimmed == Trim(ToLowerCase(commaParts[2]))
                firstMiddle == IF trimmed = <<>> THEN << <<>> >> ELSE WordsOf(trimmed)
            IN firstMiddle \o <<lastName>>
       ELSE parts

(* normalizeName(fullName).canonical *)
Canonical(fullName) ==
    IF fullName = <<>> THEN <<>> ELSE JoinWords(SortStrings(NameParts(fullName)))

(* The strings the similarity is taken of: at most MaxSimLen characters of *)
(* SimChars.                                                               *)
SimChars == <<"A", "a", "b", "I-dot">>

MaxSimLen == 3

RECURSIVE SimStrings(_)
SimStrings(n) ==
    IF n = 0 THEN {<<>>}
    ELSE LET shorter == SimStrings(n - 1)
         IN shorter \cup {Append(s, SimChars[k]) : s \in shorter, k \in 1..Len(SimChars)}

(* levenshteinDistance(a, b): the matrix of lines 759-786. *)
levenshteinDistance(a, b) ==
    IF a = <<>> \/ b = <<>> THEN Max(Len(a), Len(b))
    ELSE LET matrix[i \in 0..Len(b), j \in 0..Len(a)] ==
                 IF i = 0 THEN j
                 ELSE IF j = 0 THEN i
                 ELSE IF b[i] = a[j] THEN matrix[i - 1, j - 1]
                 ELSE Min(matrix[i - 1, j - 1] + 1,
                          Min(matrix[i, j - 1] + 1, matrix[i - 1, j] + 1))
         IN matrix[Len(b), Len(a)]

(* Math.round((1 - distance / maxLen) * 100): the nearest integer, a half  *)
(* rounded up.                                                             *)
RoundedPercent(distance, maxLen) ==
    (200 * (maxLen - distance) + maxLen) \div (2 * maxLen)

(* stringSimilarity with the longer of the two lowercase forms as maxLen. *)
stringSimilarity_LoweredLength(a, b) ==
    IF a = <<>> /\ b = <<>> THEN 100
    ELSE IF a = <<>> \/ b = <<>> THEN 0
    ELSE RoundedPercent(levenshteinDistance(ToLowerCase(a), ToLowerCase(b)),
                        Max(Len(ToLowerCase(a)), Len(ToLowerCase(b))))

(* stringSimilarity(a, b), lines 791-801; maxLen is never 0 past the two   *)
(* tests of emptiness.                                                     *)
stringSimilarity(a, b) ==
    IF a = <<>> /\ b = <<>> THEN 100
    ELSE IF a = <<>> \/ b = <<>> THEN 0
    ELSE RoundedPercent(levenshteinDistance(ToLowerCase(a), ToLowerCase(b)),
                        Max(Len(a), Len(b)))

(* NICKNAME_MAP and NICKNAME_REVERSE: the names a part stands for.  No word *)
(* of the letters a and s is a key or a value of the map.                  *)
NicknamesOf(part) == {}

(* normalizeName(fullName).variants, lines 729-745. *)
Variants(fullName) ==
    IF fullName = <<>> THEN {}
    ELSE LET parts == NameParts(fullName)
         IN {Canonical(fullName)}
            \cup UNION {{JoinWords(SortStrings([parts EXCEPT ![idx] = variant])) :
                             variant \in NicknamesOf(parts[idx])} : idx \in 1..Len(parts)}

(* areNamesSimilar with the shared parts counted as a set. *)
areNamesSimilar_SharedSet(name1, name2, threshold) ==
    LET parts1 == IF name1 = <<>> THEN <<>> ELSE NameParts(name1)
        parts2 == IF name2 = <<>> THEN <<>> ELSE NameParts(name2)
        similarity == stringSimilarity(Canonical(name1), Canonical(name2))
        shared == Cardinality(Range(parts1) \cap Range(parts2))
    IN IF Canonical(name1) = Canonical(name2) THEN [match |-> TRUE, score |-> 100]
       ELSE IF Variants(name1) \cap Variants(name2) # {} THEN [match |-> TRUE, score |-> 95]
       ELSE IF similarity >= threshold THEN [match |-> TRUE, score |-> similarity]
       ELSE IF shared >= 2 /\ shared >= Min(Len(parts1), Len(parts2))
       THEN [match |-> TRUE, score |-> 85]
       ELSE [match |-> FALSE, score |-> similarity]

(* areNamesSimilar(name1, name2, threshold), lines 806-837. *)
areNamesSimilar(name1, name2, threshold) ==
    LET parts1 == IF name1 = <<>> THEN <<>> ELSE NameParts(name1)
        parts2 == IF name2 = <<>> THEN <<>> ELSE NameParts(name2)
        similarity == stringSimilarity(Canonical(name1), Canonical(name2))
        sharedParts == SelectSeq(parts1, LAMBDA p : p \in Range(parts2))
    IN IF Canonical(name1) = Canonical(name2) THEN [match |-> TRUE, score |-> 100]
       ELSE IF Variants(name1) \cap Variants(name2) # {} THEN [match |-> TRUE, score |-> 95]
       ELSE IF similarity >= threshold THEN [match |-> TRUE, score |-> similarity]
       ELSE IF Len(sharedParts) >= 2 /\ Len(sharedParts) >= Min(Len(parts1), Len(parts2))
       THEN [match |-> TRUE, score |-> 85]
       ELSE [match |-> FALSE, score |-> similarity]

(* scoreMatch of two records that carry a name and an A# and nothing else: *)
(* lines 127-135 take the name comparison at the threshold 75 when both    *)
(* names are non-empty.                                                    *)
ScoreNamed(nameA, idA, nameB, idB) ==
    LET fields(id) == [ids |-> [f \in IdFieldSet |-> IF f = "A#" THEN id ELSE ""],
                       phone |-> <<>>, email |-> <<>>, dob |-> ""]
    IN scoreMatch(fields(idA), fields(idB),
                  [name |-> IF nameA # <<>> /\ nameB # <<>>
                            THEN areNamesSimilar(nameA, nameB, 75)
                            ELSE [match |-> FALSE, score |-> 0],
                   addrSim |-> 0 - 1])

(* The names compared with each other: at most MaxSimLen characters, each  *)
(* a space, an a or an s.                                                  *)
ComparedNames ==
    {name \in NamesUpTo(MaxSimLen) : Range(name) \subseteq {" ", "a", "s"}}

(* The calls of the name functions. *)
NameInit ==
    /\ \/ \E fullName \in NamesUpTo(MaxNameLen) :
              pin = [call |-> "normalize", fullName |-> fullName]
       \/ \E a, b \in SimStrings(MaxSimLen) :
              pin = [call |-> "similarity", a |-> a, b |-> b]
       \/ \E name1, name2 \in ComparedNames, id1, id2 \in {"", "x", "y"} :
              pin = [call |-> "similar", name1 |-> name1, id1 |-> id1,
                     name2 |-> name2, id2 |-> id2]
    /\ presult = [stage |-> "start"]
    /\ ScoreIdle /\ GroupIdle /\ FlowIdle

(* normalizeName(fullName), then normalizeName of its canonical form. *)
NameNormalize ==
    /\ presult.stage = "start"
    /\ pin.call = "normalize"
    /\ presult' = [stage |-> "normalized",
                   canonical |-> Canonical(pin.fullName),
                   again |-> Canonical(Canonical(pin.fullName))]
    /\ UNCHANGED <<pin, scoreVars, groupVars, flowVars>>

(* stringSimilarity(a, b) and stringSimilarity(b, a) *)
NameSimilarity ==
    /\ presult.stage = "start"
    /\ pin.call = "similarity"
    /\ presult' = [stage |-> "compared",
                   ab |-> stringSimilarity(pin.a, pin.b),
                   ba |-> stringSimilarity(pin.b, pin.a)]
    /\ UNCHANGED <<pin, scoreVars, groupVars, flowVars>>

(* areNamesSimilar and scoreMatch of the two records, in both orders. *)
NameSimilar ==
    /\ presult.stage = "start"
    /\ pin.call = "similar"
    /\ presult' = [stage |-> "matched",
                   names12 |-> areNamesSimilar(pin.name1, pin.name2, 75),
                   names21 |-> areNamesSimilar(pin.name2, pin.name1, 75),
                   score12 |-> ScoreNamed(pin.name1, pin.id1, pin.name2, pin.id2),
                   score21 |-> ScoreNamed(pin.name2, pin.id2, pin.name1, pin.id1)]
    /\ UNCHANGED <<pin, scoreVars, groupVars, flowVars>>

NameNext == NameNormalize \/ NameSimilarity \/ NameSimilar

SpecName == NameInit /\ [][NameNext]_vars

(* C21: normalizing the canonical form of a name returns it unchanged,     *)
(* whatever the name: comma format, honorifics, suffixes or punctuation.   *)
Cex_C21_NormalizeIdempotent ==
    presult.stage = "normalized" => presult.again = presult.canonical

(* C22: stringSimilarity(a, b) equals stringSimilarity(b, a) and is an     *)
(* integer from 0 to 100; it is 100 when both strings are empty or equal   *)
(* ignoring case, and 0 when exactly one is empty.                         *)
Cex_C22_SimilaritySymmetricBounded ==
    presult.stage = "compared" =>
        /\ presult.ab = presult.ba
        /\ presult.ab \in 0..100
        /\ (pin.a = <<>> /\ pin.b = <<>>) => presult.ab = 100
        /\ ToLowerCase(pin.a) = ToLowerCase(pin.b) => presult.ab = 100
        /\ (pin.a = <<>>) # (pin.b = <<>>) => presult.ab = 0

(* C28: scoring does not depend on the order of the two records:           *)
(* areNamesSimilar returns the same match and score for (n1, n2) and for   *)
(* (n2, n1), and scoreMatch the same confidence, tier and isConflict for   *)
(* (A, B) and for (B, A).                                                  *)
Cex_C28_ScoringSymmetric ==
    presult.stage = "matched" =>
        /\ presult.names12 = presult.names21
        /\ presult.score12.confidence = presult.score21.confidence
        /\ presult.score12.tier = presult.score21.tier
        /\ presult.score12.isConflict = presult.score21.isConflict

(***************************************************************************)
(*        ScanResults: the scan and the background resync in flight        *)
(***************************************************************************)

(* The most scans and resyncs followed while in flight at once. *)
MaxInFlight == 3

(* useState(false) of loading and of backgroundSyncing. *)
SyncFlags == [loading : BOOLEAN, backgroundSyncing : BOOLEAN]
NoSync == [loading |-> FALSE, backgroundSyncing |-> FALSE]

(* A ScanResults instance after its first render. state is the React      *)
(* state, seen the values of loading and backgroundSyncing that the last  *)
(* render gave to the button and to the closure in resyncFnRef.current,   *)
(* loaded whether recordsRef.current holds records, scans and resyncs the *)
(* runScan and resync calls that have not reached their finally, last the *)
(* outcome of the last resync request.                                    *)
SyncInit ==
    /\ scanned = [mounted |-> TRUE, state |-> NoSync, seen |-> NoSync,
                  loaded |-> FALSE, scans |-> 0, resyncs |-> 0,
                  last |-> "none"]
    /\ store = Idle /\ bulk = Idle /\ viewer = Idle
    /\ lastWrite = Idle /\ lastDelete = Idle /\ lastRun = Idle /\ opCount = 0
    /\ ScoreIdle /\ GroupIdle /\ PayloadIdle

(* A set-state call of an instance: it changes the state of a mounted     *)
(* instance and nothing of an unmounted one.                              *)
SetFlag(sync, flag, value) ==
    IF sync.mounted THEN [sync.state EXCEPT ![flag] = value] ELSE sync.state

(* React renders the mounted instance again after a state change: the     *)
(* button and the function assigned to resyncFnRef.current now read the   *)
(* current state.                                                         *)
SyncRender ==
    /\ scanned.mounted
    /\ scanned.seen # scanned.state
    /\ scanned' = [scanned EXCEPT !.seen = scanned.state]
    /\ UNCHANGED <<scoreVars, groupVars, payloadVars, store, bulk, viewer,
                   lastWrite, lastDelete, lastRun, opCount>>

(* A click on the scan button, which the last render left enabled:        *)
(* runScan up to its first await. React renders the state changes of a    *)
(* click handler before it handles the next event.                        *)
SyncRunScan ==
    /\ scanned.mounted
    /\ ~(scanned.seen.loading \/ scanned.seen.backgroundSyncing)
    /\ scanned.scans + scanned.resyncs < MaxInFlight
    /\ scanned' = [scanned EXCEPT !.state = SetFlag(scanned, "loading", TRUE),
                                  !.seen = SetFlag(scanned, "loading", TRUE),
                                  !.loaded = FALSE,
                                  !.scans = @ + 1]
    /\ UNCHANGED <<scoreVars, groupVars, payloadVars, store, bulk, viewer,
                   lastWrite, lastDelete, lastRun, opCount>>

(* A runScan call from the end of its fetch to its finally; the fetch     *)
(* returned records or none.                                              *)
SyncScanDone ==
    /\ scanned.scans > 0
    /\ \E fetched \in BOOLEAN :
           scanned' = [scanned EXCEPT
                           !.state = SetFlag(scanned, "loading", FALSE),
                           !.loaded = IF fetched THEN TRUE ELSE @,
                           !.scans = @ - 1]
    /\ UNCHANGED <<scoreVars, groupVars, payloadVars, store, bulk, viewer,
                   lastWrite, lastDelete, lastRun, opCount>>

(* The guard of the resync function: the loading and backgroundSyncing    *)
(* of the render that assigned resyncFnRef.current.                       *)
ResyncBusy(sync) == sync.seen.loading \/ sync.seen.backgroundSyncing

(* A resync request, from triggerBackgroundResync of App or from          *)
(* handleBulkMergeComplete: resyncFnRef.current() up to its first await.  *)
SyncRequestResync ==
    /\ scanned.scans + scanned.resyncs < MaxInFlight
    /\ scanned' =
           IF ResyncBusy(scanned)
           THEN [scanned EXCEPT !.last = "skipped: scan in progress"]
           ELSE IF ~scanned.loaded
           THEN [scanned EXCEPT !.last = "skipped: no records"]
           ELSE [scanned EXCEPT
                     !.state = SetFlag(scanned, "backgroundSyncing", TRUE),
                     !.resyncs = @ + 1,
                     !.last = "started"]
    /\ UNCHANGED <<scoreVars, groupVars, payloadVars, store, bulk, viewer,
                   lastWrite, lastDelete, lastRun, opCount>>

(* A resync call from the end of its fetch to its finally. *)
SyncResyncDone ==
    /\ scanned.resyncs > 0
    /\ \E fetched \in BOOLEAN :
           scanned' = [scanned EXCEPT
                           !.state = SetFlag(scanned, "backgroundSyncing", FALSE),
                           !.loaded = IF fetched THEN TRUE ELSE @,
                           !.resyncs = @ - 1]
    /\ UNCHANGED <<scoreVars, groupVars, payloadVars, store, bulk, viewer,
                   lastWrite, lastDelete, lastRun, opCount>>

(* App leaves the scan view for the review or the history view: renderView *)
(* no longer renders ScanResults, and resyncFnRef of App keeps the wrapper *)
(* of the unmounted instance.                                             *)
SyncLeaveScanView ==
    /\ scanned.mounted
    /\ scanned' = [scanned EXCEPT !.mounted = FALSE]
    /\ UNCHANGED <<scoreVars, groupVars, payloadVars, store, bulk, viewer,
                   lastWrite, lastDelete, lastRun, opCount>>

SyncNext ==
    \/ SyncRender
    \/ SyncRunScan
    \/ SyncScanDone
    \/ SyncRequestResync
    \/ SyncResyncDone
    \/ SyncLeaveScanView

SpecSync == SyncInit /\ [][SyncNext]_vars

(* C29: at most one scan or background resync is in flight at any time,   *)
(* also when two resync requests follow each other before the component   *)
(* has rendered again with the new syncing flag.                          *)
Cex_C29_OneScanOrResyncInFlight == scanned.scans + scanned.resyncs <= 1

=============================================================================
